---- MODULE Spec2Model ----
(***************************************************************************)
(* Model of the tinode chat server core:                                   *)
(*   - the per-topic video call state machine (server/calls.go),           *)
(*   - the account creation flow (server/user.go, replyCreateUser).        *)
(***************************************************************************)
EXTENDS Integers, Sequences, FiniteSets, TLC

(***************************************************************************)
(* Bounds of the model.                                                    *)
(***************************************************************************)
\* t.lastID of the topic when the model starts (messages already in the topic).
InitLastID == 8
\* Number of messages the topic may receive in a run (lastID <= InitLastID + MaxNewMsgs).
MaxNewMsgs == 4

(***************************************************************************)
(* Video call constants.                                                   *)
(***************************************************************************)
constCallEventInvite == "invite"
constCallEventRinging == "ringing"
constCallEventAccept == "accept"
constCallEventOffer == "offer"
constCallEventAnswer == "answer"
constCallEventIceCandidate == "ice-candidate"
constCallEventHangUp == "hang-up"
constCallMsgAccepted == "accepted"
constCallMsgFinished == "finished"
constCallMsgDisconnected == "disconnected"
constTinodeVideoCallMimeType == "application/x-tinode-webrtc"

\* Events a client may put in {note what=call}; "bogus" stands for any other string.
NoteEvents ==
  {constCallEventRinging, constCallEventAccept, constCallEventOffer,
   constCallEventAnswer, constCallEventIceCandidate, constCallEventHangUp, "bogus"}

(***************************************************************************)
(* Users and sessions.  Uids are numbers, 0 is types.ZeroUid.              *)
(***************************************************************************)
ZeroUid == 0
Sessions == {"a1", "a2", "b1", "c1"}
NoSession == "none"

\* Session.uid
SessUid(s) ==
  CASE s = "a1" -> 1
    [] s = "a2" -> 1
    [] s = "b1" -> 2
    [] s = "c1" -> 3
    [] OTHER -> ZeroUid

\* Uid.UserId(): "usr" followed by the encoded id; ZeroUid gives the empty string.
UserId(uid) == IF uid = ZeroUid THEN << >> ELSE <<"usr", uid>>

\* ParseUserId(): the id of a "usr"-prefixed name, ZeroUid for anything else.
ParseUserId(name) ==
  IF Len(name) = 2 /\ name[1] = "usr" THEN name[2] ELSE ZeroUid

\* Topic categories.
TopicCatP2P == "p2p"
TopicCatGrp == "grp"

\* Subscribers of the topic by category.
PerUserOf(c) == IF c = TopicCatP2P THEN {1, 2} ELSE {1, 2, 3}

(***************************************************************************)
(* strconv.Itoa / Atoi on non-negative numbers, as sequences of digits.    *)
(***************************************************************************)
Digit(d) ==
  CASE d = 0 -> "0" [] d = 1 -> "1" [] d = 2 -> "2" [] d = 3 -> "3" [] d = 4 -> "4"
    [] d = 5 -> "5" [] d = 6 -> "6" [] d = 7 -> "7" [] d = 8 -> "8" [] d = 9 -> "9"

RECURSIVE Itoa(_)
Itoa(n) == IF n < 10 THEN <<Digit(n)>> ELSE Itoa(n \div 10) \o <<Digit(n % 10)>>

DigitVal(c) == CHOOSE d \in 0..9 : Digit(d) = c

RECURSIVE Atoi(_)
Atoi(str) ==
  IF Len(str) = 0 THEN 0
  ELSE 10 * Atoi(SubSeq(str, 1, Len(str) - 1)) + DigitVal(str[Len(str)])

(***************************************************************************)
(* State.                                                                  *)
(***************************************************************************)
VARIABLES
  cat,          \* Topic.cat
  perUser,      \* Topic.perUser (its key set)
  inactive,     \* Topic.isInactive(): paused or being deleted
  lastID,       \* Topic.lastID
  currentCall,  \* Topic.currentCall; live = FALSE stands for nil
  timerArmed,   \* Topic.callEstablishmentTimer is running
  evt,          \* the request processed by the last step
  out,          \* messages sent by the last step
  saved,        \* messages persisted by the last step
  saveErr,      \* the last step tried to persist a message and failed
  anchor,       \* id of the message which started the most recent call
  hist,         \* events of the current call which were not dropped (see Record)
  origFwd,      \* info events queued to the originator's session while the call
                \* follows the scenario
  acct,         \* account creation state (see below)
  cache,        \* the users cache and its updater (see below)
  calc          \* a conversion of a mode or of a user id (see below)

callVars ==
  <<cat, perUser, inactive, lastID, currentCall, timerArmed, evt, out, saved,
    saveErr, anchor, hist, origFwd>>

vars ==
  <<cat, perUser, inactive, lastID, currentCall, timerArmed, evt, out, saved,
    saveErr, anchor, hist, origFwd, acct, cache, calc>>

\* t.currentCall == nil
NoCall == [live |-> FALSE, parties |-> {}, seq |-> 0]

\* The empty payload / nil.
NoPayload == "nil"
\* Payloads a client attaches to an event: session descriptions and ICE
\* candidates travel with offer, answer and ice-candidate.
PayloadsFor(ev) ==
  IF ev \in {constCallEventOffer, constCallEventAnswer, constCallEventIceCandidate}
  THEN {"sdp"}
  ELSE {NoPayload}

\* A request handled by the topic.
Request(op, s, ev, sq, pl) ==
  [op |-> op, sess |-> s, AsUser |-> UserId(SessUid(s)), event |-> ev,
   SeqId |-> sq, payload |-> pl]

\* Scenario S4 after the invite: the callee sends ringing, then accept.
Scenario == <<constCallEventRinging, constCallEventAccept>>
OffScenario == <<"other">>

\* hist after event e was processed: the events so far while they follow the
\* scenario, OffScenario once they left it.
Record(h, e) ==
  IF h # OffScenario /\ Len(h) < Len(Scenario) /\ Scenario[Len(h) + 1] = e
  THEN Append(h, e)
  ELSE OffScenario

(***************************************************************************)
(* Outgoing messages.  ch = "sess": Session.queueOut of toSess;            *)
(* ch = "topic": broadcast to the sessions attached to the topic;          *)
(* ch = "offline": infoCallSubsOffline to the sessions of toUid except     *)
(* the session skip.                                                       *)
(***************************************************************************)
BlankMsg ==
  [ch |-> "sess", toSess |-> NoSession, toUid |-> ZeroUid, skip |-> NoSession,
   what |-> "", event |-> "", seq |-> 0, from |-> << >>, payload |-> NoPayload,
   final |-> FALSE, code |-> ""]

\* ErrCallBusyReply / ErrPermissionDeniedReply, queued to the requester.
ErrReply(s, code) ==
  [BlankMsg EXCEPT !.toSess = s, !.what = "ctrl", !.code = code]

(***************************************************************************)
(* videoCall helpers.                                                      *)
(***************************************************************************)
\* videoCall.messageHead(): head of the replacement {data} message.
messageHead_LastID(call) ==
  [mime |-> constTinodeVideoCallMimeType, replace |-> <<":">> \o Itoa(lastID)]

messageHead(call) ==
  [mime |-> constTinodeVideoCallMimeType, replace |-> <<":">> \o Itoa(call.seq)]

\* videoCall.infoMessage(): template of the {info} message of a call event.
infoMessage_Ringing(call, event) ==
  [BlankMsg EXCEPT !.what = "call", !.event = constCallEventRinging, !.seq = call.seq]

infoMessage(call, event) ==
  [BlankMsg EXCEPT !.what = "call", !.event = event, !.seq = call.seq]

\* Topic.getCallOriginator(): the parties marked isOriginator; the code returns
\* the first one it finds, or (ZeroUid, nil) when there is none.
Originators(call) == {p \in call.parties : p.isOriginator}

getCallOriginator(call) ==
  IF call.live /\ Originators(call) # {}
  THEN LET p == CHOOSE q \in Originators(call) : TRUE IN [uid |-> p.uid, sess |-> p.sess]
  ELSE [uid |-> ZeroUid, sess |-> NoSession]

\* t.currentCall.parties[sess] = callPartyData{uid, isOriginator}
SetParty_Originator(parties, s, uid, orig) ==
  {p \in parties : p.sess # s} \cup {[sess |-> s, uid |-> uid, isOriginator |-> TRUE]}

SetParty(parties, s, uid, orig) ==
  {p \in parties : p.sess # s} \cup {[sess |-> s, uid |-> uid, isOriginator |-> orig]}

\* Candidates for the "other end" of a metadata event: the parties whose session
\* is not the sender's (the code takes the first one the map iteration yields).
OtherEnds_Any(call, s) == call.parties

OtherEnds(call, s) == {p \in call.parties : p.sess # s}

\* Topic.infoCallSubsOffline(from, target, event, seq, payload, skipSid, final)
infoCallSubsOffline(from, target, event, seq, payload, skipSid, final) ==
  [BlankMsg EXCEPT !.ch = "offline", !.toUid = target, !.skip = skipSid,
                   !.what = "call", !.event = event, !.seq = seq, !.from = from,
                   !.payload = payload, !.final = final]

\* Topic.broadcastToSessions(msg)
broadcastToSessions(msg) == [msg EXCEPT !.ch = "topic"]

\* Session.queueOut(msg)
queueOut(s, msg) == [msg EXCEPT !.ch = "sess", !.toSess = s]

\* Topic.saveAndBroadcastMessage, on success: the message stored under the next
\* sequence id and the {data} message broadcast to the topic.
StoredMsg(asUid, head, content) ==
  [seq |-> lastID + 1, from |-> asUid, head |-> head, content |-> content]

DataBroadcast(asUid, head, content) ==
  [BlankMsg EXCEPT !.ch = "topic", !.what = "data", !.seq = lastID + 1,
                   !.from = UserId(asUid), !.event = content]

\* Which replacement message ends the call: `from` is the user who hung up,
\* empty when the server ends the call.
EndReplaceWith_Finished(from, call) == constCallMsgFinished

EndReplaceWith_ByFrom(from, call) ==
  IF from # << >> THEN constCallMsgFinished ELSE constCallMsgDisconnected

EndReplaceWith(from, call) ==
  IF from # << >> /\ Cardinality(call.parties) = 2
  THEN constCallMsgFinished
  ELSE constCallMsgDisconnected

\* t.callEstablishmentTimer.Stop(): the timer no longer runs.
StopTimer_Forgotten(tmr) == tmr

StopTimer(tmr) == FALSE

\* t.callEstablishmentTimer.Reset(constCallEstablishmentTimeout): the timer runs.
ResetTimer_Forgotten(tmr) == tmr

ResetTimer(tmr) == TRUE

\* _, userFound := t.perUser[asUid]
userFound_Anyone(asUid) == TRUE

userFound(asUid) == asUid \in perUser

\* Room left for new messages in the model.
MaxLastID == InitLastID + MaxNewMsgs
\* Messages the current call may still write (accepted, then the final one).
Reserve ==
  IF ~currentCall.live THEN 0
  ELSE IF Cardinality(currentCall.parties) < 2 THEN 2 ELSE 1

\* Topic.p2pOtherUser(uid): the subscriber of a P2P topic who is not uid.
p2pOtherUser(uid) == perUser \ {uid}

\* The offline hang-up notifications, one per subscriber.
RECURSIVE HangUpOffline(_, _, _)
HangUpOffline(from, call, users) ==
  IF users = {} THEN << >>
  ELSE LET tgt == CHOOSE u \in users : \A v \in users : u <= v
       IN <<infoCallSubsOffline(from, tgt, constCallEventHangUp, call.seq,
                                NoPayload, NoSession, TRUE)>>
          \o HangUpOffline(from, call, users \ {tgt})

(***************************************************************************)
(* Handlers.  r is the request being processed (kept in evt), tmr the      *)
(* state of the establishment timer when the handler starts, ok whether    *)
(* the store accepts the message the handler writes.                       *)
(***************************************************************************)
\* The handler returns without touching the call: it only sends messages o.
Return(r, o, tmr) ==
  /\ evt' = r
  /\ out' = o
  /\ saved' = {}
  /\ saveErr' = FALSE
  /\ timerArmed' = tmr
  /\ UNCHANGED <<cat, perUser, inactive, lastID, currentCall, anchor, hist, origFwd, acct, cache, calc>>

\* Topic.maybeEndCallInProgress(from, msg)
maybeEndCallInProgress(from, r, tmr) ==
  IF ~currentCall.live THEN Return(r, << >>, tmr)
  ELSE
    LET originator == getCallOriginator(currentCall).uid
        replaceWith == EndReplaceWith(from, currentCall)
        head == messageHead(currentCall)
        resp == infoMessage(currentCall, constCallEventHangUp)
        notify == <<broadcastToSessions(resp)>> \o HangUpOffline(from, currentCall, perUser)
    IN
    /\ evt' = r
    /\ timerArmed' = StopTimer(tmr)
    /\ \/ \* saveAndBroadcastMessage succeeds
          /\ lastID' = lastID + 1
          /\ saved' = {StoredMsg(originator, head, replaceWith)}
          /\ saveErr' = FALSE
          /\ out' = <<DataBroadcast(originator, head, replaceWith)>> \o notify
       \/ \* saveAndBroadcastMessage fails: the error is logged
          /\ lastID' = lastID
          /\ saved' = {}
          /\ saveErr' = TRUE
          /\ out' = notify
    /\ currentCall' = NoCall
    /\ hist' = << >>
    /\ origFwd' = << >>
    /\ UNCHANGED <<cat, perUser, inactive, anchor, acct, cache, calc>>

\* Topic.terminateCallInProgress()
terminateCallInProgress(r, tmr) ==
  IF ~currentCall.live THEN Return(r, << >>, tmr)
  ELSE
    LET o == getCallOriginator(currentCall) IN
    IF o.sess = NoSession \/ o.uid = ZeroUid
    THEN \* Just drop the call.
         /\ evt' = r
         /\ currentCall' = NoCall
         /\ timerArmed' = tmr
         /\ out' = << >>
         /\ saved' = {}
         /\ saveErr' = FALSE
         /\ hist' = << >>
         /\ origFwd' = << >>
         /\ UNCHANGED <<cat, perUser, inactive, lastID, anchor, acct, cache, calc>>
    ELSE maybeEndCallInProgress(<< >>, r, tmr)

\* The checks handleCallInvite makes before it creates the call.
InviteVerdict_NoBusy(call, c) ==
  IF c # TopicCatP2P THEN "permission-denied" ELSE "ok"

InviteVerdict(call, c) ==
  IF call.live THEN "call-busy"
  ELSE IF c # TopicCatP2P THEN "permission-denied"
  ELSE "ok"

\* Topic.handleCallInvite(msg, asUid)
handleCallInvite(s) ==
  LET msg == Request("pub", s, constCallEventInvite, 0, NoPayload)
      asUid == SessUid(s)
  IN
  IF InviteVerdict(currentCall, cat) # "ok"
  THEN Return(msg, <<ErrReply(s, InviteVerdict(currentCall, cat))>>, timerArmed)
  ELSE
    /\ lastID + 2 + Reserve <= MaxLastID
    /\ \E tgt \in p2pOtherUser(asUid) :
         out' = <<infoCallSubsOffline(msg.AsUser, tgt, constCallEventInvite, lastID,
                                      NoPayload, s, FALSE)>>
    /\ currentCall' = [live |-> TRUE, parties |-> SetParty({}, s, asUid, TRUE),
                       seq |-> lastID]
    /\ timerArmed' = ResetTimer(timerArmed)
    /\ evt' = msg
    /\ saved' = {}
    /\ saveErr' = FALSE
    /\ anchor' = lastID
    /\ hist' = << >>
    /\ origFwd' = << >>
    /\ UNCHANGED <<cat, perUser, inactive, lastID, acct, cache, calc>>

\* The originator's queue of forwarded events after msg was queued to session s.
Forwarded(s, msg) ==
  IF Record(hist, msg.event) = OffScenario THEN << >>
  ELSE IF s = getCallOriginator(currentCall).sess THEN Append(origFwd, msg.event)
  ELSE origFwd

\* Topic.handleCallEvent(msg)
handleCallEvent(s, ev, sq, pl) ==
  LET msg == Request("note", s, ev, sq, pl)
      asUid == ParseUserId(msg.AsUser)
      orig == getCallOriginator(currentCall)
  IN
  IF ~currentCall.live THEN Return(msg, << >>, timerArmed)
  ELSE IF inactive THEN Return(msg, << >>, timerArmed)
  ELSE IF currentCall.seq # sq THEN Return(msg, << >>, timerArmed)
  ELSE IF ~userFound(asUid) THEN Return(msg, << >>, timerArmed)
  ELSE IF ev \in {constCallEventRinging, constCallEventAccept} THEN
    IF Cardinality(currentCall.parties) # 1 THEN Return(msg, << >>, timerArmed)
    ELSE IF orig.sess = NoSession THEN terminateCallInProgress(msg, timerArmed)
    ELSE IF orig.sess = s \/ orig.uid = asUid THEN Return(msg, << >>, timerArmed)
    ELSE
      LET forwardMsg == [infoMessage(currentCall, ev) EXCEPT !.from = msg.AsUser]
          head == messageHead(currentCall)
      IN
      IF ev = constCallEventAccept
      THEN
        \/ \* saveAndBroadcastMessage failed: return.
             /\ evt' = msg
             /\ out' = << >>
             /\ saved' = {}
             /\ saveErr' = TRUE
             /\ hist' = Record(hist, "accept-failed")
             /\ UNCHANGED <<cat, perUser, inactive, lastID, currentCall, timerArmed,
                            anchor, acct, cache, calc>>
             /\ origFwd' = IF Record(hist, "accept-failed") = OffScenario THEN << >> ELSE origFwd
        \/   /\ evt' = msg
             /\ lastID' = lastID + 1
             /\ saved' = {StoredMsg(orig.uid, head, constCallMsgAccepted)}
             /\ saveErr' = FALSE
             /\ currentCall' =
                  [currentCall EXCEPT !.parties = SetParty(@, s, asUid, FALSE)]
             /\ timerArmed' = StopTimer(timerArmed)
             /\ out' = <<DataBroadcast(orig.uid, head, constCallMsgAccepted),
                         infoCallSubsOffline(msg.AsUser, asUid, ev, lastID + 1, pl, s, FALSE),
                         queueOut(orig.sess, forwardMsg)>>
             /\ hist' = Record(hist, ev)
             /\ origFwd' = Forwarded(orig.sess, forwardMsg)
             /\ UNCHANGED <<cat, perUser, inactive, anchor, acct, cache, calc>>
      ELSE /\ evt' = msg
           /\ out' = <<queueOut(orig.sess, forwardMsg)>>
           /\ saved' = {}
           /\ saveErr' = FALSE
           /\ hist' = Record(hist, ev)
           /\ origFwd' = Forwarded(orig.sess, forwardMsg)
           /\ UNCHANGED <<cat, perUser, inactive, lastID, currentCall, timerArmed,
                          anchor, acct, cache, calc>>
  ELSE IF ev \in {constCallEventOffer, constCallEventAnswer, constCallEventIceCandidate} THEN
    IF OtherEnds(currentCall, s) = {} THEN Return(msg, << >>, timerArmed)
    ELSE
      \E otherEnd \in OtherEnds(currentCall, s) :
        LET forwardMsg == [infoMessage(currentCall, ev) EXCEPT !.from = msg.AsUser,
                                                               !.payload = pl]
        IN
        /\ evt' = msg
        /\ out' = <<queueOut(otherEnd.sess, forwardMsg)>>
        /\ saved' = {}
        /\ saveErr' = FALSE
        /\ hist' = Record(hist, ev)
        /\ origFwd' = Forwarded(otherEnd.sess, forwardMsg)
        /\ UNCHANGED <<cat, perUser, inactive, lastID, currentCall, timerArmed,
                       anchor, acct, cache, calc>>
  ELSE IF ev = constCallEventHangUp THEN maybeEndCallInProgress(msg.AsUser, msg, timerArmed)
  ELSE Return(msg, << >>, timerArmed)

(***************************************************************************)
(* Access modes (store/types).  A mode is the number of its bits; a text   *)
(* is the sequence of its characters.  calc holds a conversion: the        *)
(* function applied (fn, "" before it is applied), its arguments and its   *)
(* results.                                                                *)
(***************************************************************************)
\* The longest text given to AccessMode.UnmarshalText in a run.
MaxTextLen == 3

\* 1 << iota
ModeJoin == 2 ^ 0
ModeRead == 2 ^ 1
ModeWrite == 2 ^ 2
ModePres == 2 ^ 3
ModeApprove == 2 ^ 4
ModeShare == 2 ^ 5
ModeDelete == 2 ^ 6
ModeOwner == 2 ^ 7
ModeUnset == 2 ^ 8
ModeNone == 0
ModeCFull ==
  ModeJoin + ModeRead + ModeWrite + ModePres + ModeApprove + ModeShare + ModeDelete
  + ModeOwner
\* 0x100000
ModeInvalid == 16 ^ 5

\* var modes = []byte{'J', 'R', 'W', 'P', 'A', 'S', 'D', 'O'}
modes == <<"J", "R", "W", "P", "A", "S", "D", "O">>

\* The bit i (from 0) of m.
Bit(m, i) == (m \div (2 ^ i)) % 2

\* m | b for a mode b of one bit.
BitOr(m, b) == IF (m \div b) % 2 = 1 THEN m ELSE m + b

\* a &^ b
RECURSIVE AndNot(_, _)
AndNot(a, b) ==
  IF a = 0 THEN 0
  ELSE (a % 2) * (1 - (b % 2)) + 2 * AndNot(a \div 2, b \div 2)

\* The result of a conversion to text, and of a conversion to a mode.
TextResult(err, text) == [err |-> err, text |-> text]
ModeResult(err, m) == [err |-> err, m |-> m]

\* Lines 386-390 of MarshalText: the letters of the bits of m from the i-th on.
RECURSIVE modeLetters(_, _)
modeLetters(m, i) ==
  IF i > Len(modes) THEN << >>
  ELSE (IF Bit(m, i - 1) # 0 THEN <<modes[i]>> ELSE << >>) \o modeLetters(m, i + 1)

\* AccessMode.MarshalText
MarshalText(m) ==
  IF m = 0 THEN TextResult(FALSE, <<"N">>)
  ELSE IF m = ModeInvalid THEN TextResult(TRUE, << >>)
  ELSE TextResult(FALSE, modeLetters(m, 1))

\* AccessMode.String
String(m) == IF MarshalText(m).err THEN << >> ELSE MarshalText(m).text

\* The switch of UnmarshalText: the mode after the character ch, ModeInvalid
\* standing for the default case.  The break of case 'N' leaves the switch,
\* not the loop.
ModeAfter(m0, ch) ==
  CASE ch \in {"J", "j"} -> BitOr(m0, ModeJoin)
    [] ch \in {"R", "r"} -> BitOr(m0, ModeRead)
    [] ch \in {"W", "w"} -> BitOr(m0, ModeWrite)
    [] ch \in {"A", "a"} -> BitOr(m0, ModeApprove)
    [] ch \in {"S", "s"} -> BitOr(m0, ModeShare)
    [] ch \in {"D", "d"} -> BitOr(m0, ModeDelete)
    [] ch \in {"P", "p"} -> BitOr(m0, ModePres)
    [] ch \in {"O", "o"} -> BitOr(m0, ModeOwner)
    [] ch \in {"N", "n"} -> 0
    [] OTHER -> ModeInvalid

\* Lines 399-423 of UnmarshalText: the loop from the i-th character on.
RECURSIVE unmarshalLoop(_, _, _)
unmarshalLoop(m0, b, i) ==
  IF i > Len(b) THEN ModeResult(FALSE, m0)
  ELSE IF ModeAfter(m0, b[i]) = ModeInvalid THEN ModeResult(TRUE, m0)
  ELSE unmarshalLoop(ModeAfter(m0, b[i]), b, i + 1)

\* Lines 425-427 of UnmarshalText: is the mode read stored into *m?
Stored(m0) == m0

\* AccessMode.UnmarshalText on a variable that holds m.
UnmarshalText(m, b) ==
  LET r == unmarshalLoop(ModeUnset, b, 1) IN
  IF r.err THEN ModeResult(TRUE, m)
  ELSE ModeResult(FALSE, IF r.m # ModeUnset THEN Stored(r.m) ELSE m)

\* The order of the two parts of a delta.
DeltaText_RemovedFirst(added, removed) == removed \o added

DeltaText(added, removed) == added \o removed

\* AccessMode.Delta: o.Delta(n)
Delta(o, n) ==
  LET o2n == AndNot(o, n)
      n2o == AndNot(n, o)
      removed == IF o2n > 0 /\ String(o2n) # << >> THEN <<"-">> \o String(o2n) ELSE << >>
      added == IF n2o > 0 /\ String(n2o) # << >> THEN <<"+">> \o String(n2o) ELSE << >>
  IN DeltaText(added, removed)

\* ModeCP2P: the default access of a P2P topic.
ModeCP2P == ModeJoin + ModeRead + ModeWrite + ModePres + ModeApprove

\* a & b
RECURSIVE And(_, _)
And(a, b) ==
  IF a = 0 \/ b = 0 THEN 0
  ELSE (a % 2) * (b % 2) + 2 * And(a \div 2, b \div 2)

\* getDefaultAccess(cat, authUser): the default access of the category.
getDefaultAccess(topicCat, authUser) ==
  IF topicCat = TopicCatP2P /\ authUser THEN ModeCP2P ELSE ModeNone

\* Lines 76-78 and 83-85 of replyCreateUser: Approve is added to a mode which
\* is not ModeNone.
Approved_Never(m) == m

Approved(m) == IF m # ModeNone THEN BitOr(m, ModeApprove) ELSE m

\* Lines 73-79 and 80-86 of replyCreateUser: the default access saved when
\* the client gave text; def is the default of the category.  The error of
\* UnmarshalText is not looked at.
DefaultAcs(def, text) ==
  IF text = << >> THEN def
  ELSE Approved(And(UnmarshalText(def, text).m, ModeCP2P))


(***************************************************************************)
(* Accounts (server/user.go).  acct holds the storage the account handlers *)
(* work on and the outcome of the last request:                            *)
(*   users    rows of the users table: [uid, tags, deleted, access]; a row  *)
(*            with deleted = TRUE is a soft-deleted user (deletedAt is set) *)
(*   authRecs authentication records: [uid, scheme, secret]                *)
(*   creds    credential records: [uid, method, value, done]               *)
(*   lastUid  the id given to the last user row                            *)
(*   res      the outcome of the last request                              *)
(*   required the credential methods globals.authValidators requires at    *)
(*            the "auth" level                                             *)
(*   sess     the session of the last request                              *)
(*   req      the last request                                             *)
(*   recTags  the tags the authenticator returned for the last request     *)
(***************************************************************************)
\* Number of user rows the store may hold in a run.
MaxUsers == 1

\* A tag "ns:val"; ns is empty for a plain tag.
Tag(ns, val) == [ns |-> ns, val |-> val]

\* Registered authenticators, auth levels and validators.
AuthHandlers == {"basic"}
Validators == {"email", "tel"}
\* globals.validators[method].addToTags
addToTags(method) == method \in {"email", "tel"}
\* The configurations examined: the methods an account of level auth must validate.
RequiredSets == {<<"email", "tel">>, <<"email">>}
\* globals.authValidators[level]: the methods an account of this level must validate.
authValidators(level) == IF level = "auth" THEN acct.required ELSE << >>
\* globals.immutableTagNS
immutableTagNS == {"basic", "email", "tel"}

\* The sessions which send account requests: s.sid, s.uid, s.authLvl and rec,
\* the user of the token record the request carries (ZeroUid: rec is nil).
Requester(sid, uid, authLvl, rec) == [sid |-> sid, uid |-> uid, authLvl |-> authLvl, rec |-> rec]
Requesters ==
  {Requester("s0", ZeroUid, "none", ZeroUid), Requester("s0", ZeroUid, "none", 1),
   Requester("s1", 1, "auth", ZeroUid), Requester("s3", 3, "root", ZeroUid)}

\* Requests the model sends.
AcctSecrets == {"alice:pw", "bob:pw"}
EmailCred(response) == [method |-> "email", value |-> "a@x", response |-> response]
TelCred(response) == [method |-> "tel", value |-> "+1", response |-> response]
BadEmailCred == [method |-> "email", value |-> "bad", response |-> ""]
AcctCreds ==
  {<< >>, <<EmailCred("")>>, <<EmailCred("123456")>>, <<TelCred("123456")>>,
   <<BadEmailCred>>,
   <<EmailCred("123456"), TelCred("123456")>>, <<EmailCred(""), TelCred("123456")>>,
   <<EmailCred(""), EmailCred("123456")>>}
\* {acc user="new"}: msg.Acc.Login, Scheme, Secret, Tags and Cred.
NewAcc(login, scheme, secret, tags, cred) ==
  [login |-> login, scheme |-> scheme, secret |-> secret, tags |-> tags, cred |-> cred,
   defacs |-> [auth |-> << >>, anon |-> << >>]]
\* msg.Acc.Desc.DefaultAcs: the texts Auth and Anon, empty when not given.
WithDefaultAcs(msg, auth, anon) == [msg EXCEPT !.defacs = [auth |-> auth, anon |-> anon]]
\* The texts of default access the clients send.
DefaultAcsTexts ==
  {<<"N">>, <<"J", "R">>, <<"r", "S">>, <<"O">>, <<"x">>, <<"N", "J">>, <<"J", "N">>}
AcctMsgs ==
  {NewAcc(FALSE, "basic", "alice:pw", <<Tag("", "alice")>>, cred) : cred \in AcctCreds}
  \cup {NewAcc(login, "basic", "alice:pw", << >>, cred) :
          login \in BOOLEAN,
          cred \in {<<EmailCred("")>>, <<EmailCred("123456"), TelCred("123456")>>}}
  \cup {WithDefaultAcs(NewAcc(FALSE, "basic", "alice:pw", << >>,
                              <<EmailCred("123456"), TelCred("123456")>>), d[1], d[2]) :
          d \in {<<text, text>> : text \in DefaultAcsTexts}
                \cup {<<<<"J", "R">>, << >> >>, << << >>, <<"J", "R">> >>}}
  \cup {NewAcc(FALSE, "basic", "bob:pw", << >>, <<EmailCred("123456")>>),
        NewAcc(FALSE, "bogus", "alice:pw", << >>, << >>),
        NewAcc(FALSE, "basic", "alice:pw", <<Tag("email", "a@x")>>, <<EmailCred("")>>)}
\* The requests examined: every message from a session which is not logged in,
\* the messages with and without login from the other sessions.
AcctRequests ==
  {[sess |-> Requester("s0", ZeroUid, "none", ZeroUid), msg |-> msg] : msg \in AcctMsgs}
  \cup {[sess |-> s, msg |-> NewAcc(login, "basic", "alice:pw", << >>, <<EmailCred("")>>)] :
          s \in Requesters, login \in BOOLEAN}
NoAcc == NewAcc(FALSE, "", "", << >>, << >>)

\* The elements of a sequence.
Range(seq) == {seq[i] : i \in DOMAIN seq}

\* credentialMethods(creds)
credentialMethods(creds) == [i \in DOMAIN creds |-> creds[i].method]

\* normalizeCredentials(creds, valueRequired): one credential is kept for each
\* registered method, the last one given.
RECURSIVE normalizeCredentials(_)
normalizeCredentials(creds) ==
  IF creds = << >> THEN << >>
  ELSE LET rest == normalizeCredentials(Tail(creds)) IN
       IF Head(creds).method \notin Validators
          \/ Head(creds).method \in Range(credentialMethods(rest))
       THEN rest
       ELSE <<Head(creds)>> \o rest

\* stringSliceDelta(rold, rnew): the second result, the elements of rold missing in rnew.
RECURSIVE Missing(_, _)
Missing(rold, rnew) ==
  IF rold = << >> THEN << >>
  ELSE (IF Head(rold) \in Range(rnew) THEN << >> ELSE <<Head(rold)>>)
       \o Missing(Tail(rold), rnew)

\* restrictedTagsEqual(tags, nil, immutableTagNS): tags holds no tag of a restricted namespace.
restrictedTagsEqual(tags) == \A i \in DOMAIN tags : tags[i].ns \notin immutableTagNS

\* Validator.PreCheck(value, params): the email validator rejects a malformed
\* address; the tel validator accepts everything.
PreCheck(cr) == cr.method = "tel" \/ cr.value # "bad"

\* The first credential which fails PreCheck, 0 when there is none.
FirstPreCheckFailure_None(creds) == 0

FirstPreCheckFailure(creds) ==
  IF \E i \in DOMAIN creds : ~PreCheck(creds[i])
  THEN CHOOSE i \in DOMAIN creds :
         ~PreCheck(creds[i]) /\ \A j \in 1..(i - 1) : PreCheck(creds[j])
  ELSE 0

\* authhdl.IsUnique(secret)
IsUnique(secret) == \A r \in acct.authRecs : r.secret # secret

\* store.Users.Delete(uid, hard): a hard delete removes the row, a soft delete
\* marks it deleted; when the store fails nothing changes.
UsersDelete(users, uid, hard, ok) ==
  IF ~ok THEN users
  ELSE IF hard THEN {u \in users : u.uid # uid}
  ELSE {IF u.uid = uid THEN [u EXCEPT !.deleted = TRUE] ELSE u : u \in users}

\* store.Users.UpdateTags(uid, nil, nil, reset): the row's tags become reset.
UsersUpdateTags(users, uid, reset) ==
  {IF u.uid = uid THEN [u EXCEPT !.tags = reset] ELSE u : u \in users}

\* Validator.Request(uid, value, lang, response, tmpToken).  The email validator
\* saves the credential, validated when the response is given; the tel
\* validator makes no record.
vldRequest(creds, uid, cr) ==
  IF cr.method = "tel" THEN creds
  ELSE {c \in creds : ~(c.uid = uid /\ c.method = cr.method /\ c.value = cr.value)}
       \cup {[uid |-> uid, method |-> cr.method, value |-> cr.value,
              done |-> cr.response # ""]}

\* May Request fail for this credential?  The tel validator always returns nil.
RequestMayFail(cr) == cr.method # "tel"

\* Lines 287-296 of addCreds: the tags after credential cr was requested.
CredTags_NotAdded(tags, cr) == tags

CredTags(tags, cr) ==
  IF cr.response # "" /\ addToTags(cr.method)
  THEN Append(tags, Tag(cr.method, cr.value))
  ELSE tags

\* addCreds(uid, creds, tags, lang, tmpToken) up to credential n: the stored
\* credentials, the validated methods and the tags after the first n requests.
RECURSIVE addCredsLoop(_, _, _, _, _)
addCredsLoop(stored, uid, creds, tags, n) ==
  IF n = 0 THEN [creds |-> stored, validated |-> << >>, tags |-> tags]
  ELSE LET before == addCredsLoop(stored, uid, creds, tags, n - 1)
           cr == creds[n]
       IN [creds |-> vldRequest(before.creds, uid, cr),
           validated |-> IF cr.response # "" THEN Append(before.validated, cr.method)
                         ELSE before.validated,
           tags |-> CredTags(before.tags, cr)]

\* The outcome of a request: the reply code, the account it was about (ZeroUid
\* when no row was written), whether the user row had been written, the
\* credentials reported missing.
Outcome(code, uid, persisted, missing) ==
  [code |-> code, uid |-> uid, persisted |-> persisted, missing |-> missing]

AcctInit ==
  [users |-> {}, authRecs |-> {}, creds |-> {}, lastUid |-> ZeroUid,
   required |-> <<"email", "tel">>,
   sess |-> Requester("s0", ZeroUid, "none", ZeroUid), req |-> NoAcc, recTags |-> << >>,
   live |-> {"s0", "s1", "s1b", "s2", "s3"}, steps |-> << >>, branch |-> "", nreq |-> 0,
   res |-> Outcome("none", ZeroUid, FALSE, << >>)]

\* The tags authhdl.AddRecord hands back: unchanged, with the login tag added, or none.
AddRecordTags(tags, secret) == {tags, Append(tags, Tag("basic", secret)), << >>}

\* Line 16: the session cannot log in with the new account.
AlreadyAuthenticated_NoLogin(s, msg) == s.uid # ZeroUid \/ s.rec # ZeroUid

AlreadyAuthenticated(s, msg) == msg.login /\ (s.uid # ZeroUid \/ s.rec # ZeroUid)

\* Line 117: are there fewer credentials than required methods?
CredentialsMissing(creds, required) == Len(creds) < Len(required)

\* Lines 299-304 of addCreds: are the tags written back?
TagsSaved(tags) == Len(tags) > 0

\* replyCreateUser(s, msg, rec)
replyCreateUser(s, msg) ==
  LET uid == acct.lastUid + 1
      secret == msg.secret
      tags == msg.tags
      creds == normalizeCredentials(msg.cred)
      \* lines 68-89: user.Access
      access == [auth |-> DefaultAcs(getDefaultAccess(TopicCatP2P, TRUE), msg.defacs.auth),
                 anon |-> DefaultAcs(getDefaultAccess(TopicCatP2P, FALSE), msg.defacs.anon)]
      fail(code, users, authRecs, stored, persisted, missing) ==
        acct' = [acct EXCEPT !.users = users, !.authRecs = authRecs, !.creds = stored,
                 !.lastUid = IF persisted THEN uid ELSE acct.lastUid,
                 !.sess = s, !.req = msg, !.recTags = << >>,
                 !.res = Outcome(code, IF persisted THEN uid ELSE ZeroUid,
                                 persisted, missing)]
      reject(code) == fail(code, acct.users, acct.authRecs, acct.creds, FALSE, << >>)
  IN
  IF AlreadyAuthenticated(s, msg) THEN reject("already-authenticated")
  ELSE IF msg.scheme \notin AuthHandlers THEN reject("malformed")
  ELSE IF ~IsUnique(secret) THEN reject("duplicate")
  ELSE IF ~restrictedTagsEqual(tags) THEN reject("permission-denied")
  ELSE IF FirstPreCheckFailure(creds) # 0 THEN reject("malformed")
  ELSE
    \* store.Users.Create(&user, private)
    \/ reject("unknown")
    \/ /\ acct.lastUid < MaxUsers
       /\ LET users1 == acct.users \cup {[uid |-> uid, tags |-> tags, deleted |-> FALSE,
                                          access |-> access]} IN
          \* authhdl.AddRecord(&auth.Rec{Uid, Tags}, secret)
          \/ \E delOk \in BOOLEAN :
               fail("internal", UsersDelete(users1, uid, FALSE, delOk), acct.authRecs,
                    acct.creds, TRUE, << >>)
          \/ \E recTags \in AddRecordTags(tags, secret) :
               LET authRecs1 == acct.authRecs \cup
                                  {[uid |-> uid, scheme |-> msg.scheme, secret |-> secret]}
                   required == authValidators("auth")
               IN
               IF CredentialsMissing(creds, required)
               THEN \E delOk \in BOOLEAN :
                      fail("policy", UsersDelete(users1, uid, FALSE, delOk), authRecs1,
                           acct.creds, TRUE, Missing(required, credentialMethods(creds)))
               ELSE
                 \* addCreds: a Request fails at credential n, the tag update fails, or all is saved.
                 \/ \E n \in DOMAIN creds, delOk \in BOOLEAN :
                      /\ RequestMayFail(creds[n])
                      /\ fail("internal", UsersDelete(users1, uid, FALSE, delOk), authRecs1,
                              addCredsLoop(acct.creds, uid, creds, recTags, n - 1).creds,
                              TRUE, << >>)
                 \/ LET done == addCredsLoop(acct.creds, uid, creds, recTags, Len(creds))
                        created(users) ==
                          acct' = [acct EXCEPT !.users = users, !.authRecs = authRecs1,
                                   !.creds = done.creds, !.lastUid = uid,
                                   !.sess = s, !.req = msg, !.recTags = recTags,
                                   !.res = Outcome("created", uid, TRUE,
                                                   Missing(required, done.validated))]
                    IN
                    IF TagsSaved(done.tags)
                    THEN \/ \E delOk \in BOOLEAN :
                              fail("internal", UsersDelete(users1, uid, FALSE, delOk),
                                   authRecs1, done.creds, TRUE, << >>)
                         \/ created(UsersUpdateTags(users1, uid, done.tags))
                    ELSE created(users1)

\* A client asks for a new account: {acc user="new"}.
ReplyCreateUser ==
  /\ \E rq \in AcctRequests : replyCreateUser(rq.sess, rq.msg)
  /\ UNCHANGED <<callVars, cache, calc>>

(***************************************************************************)
(* Account update and deletion (replyUpdateUser, replyDelUser).  Beside    *)
(* the store acct holds                                                    *)
(*   live     the sessions which have not been stopped                     *)
(*   steps    what the last request did outside the users table, in order  *)
(*   branch   the error returned by the branch replyUpdateUser selected    *)
(*   nreq     the number of update and delete requests handled             *)
(***************************************************************************)
\* Number of update and delete requests in a run.
MaxRequests == 2

\* A step of a handler.
Step(op, arg) == [op |-> op, arg |-> arg]

\* {acc user=...}: msg.Acc.User, AuthLevel, Scheme, Secret and Cred.
UpdAcc(user, authLevel, scheme, secret, cred) ==
  [kind |-> "upd", user |-> user, authLevel |-> authLevel, scheme |-> scheme,
   secret |-> secret, cred |-> cred, hard |-> FALSE]
\* {del what="user"}: msg.Del.User and Hard.
DelAcc(user, hard) ==
  [kind |-> "del", user |-> user, authLevel |-> "", scheme |-> "", secret |-> "",
   cred |-> << >>, hard |-> hard]

\* The sessions of the users 1 and 2, of a root user and one which is not logged
\* in, and the requests carrying a token of user 1 or 2.
UpdRequesters ==
  {Requester("s0", ZeroUid, "none", ZeroUid), Requester("s0", ZeroUid, "none", 1),
   Requester("s1", 1, "auth", ZeroUid), Requester("s1", 1, "auth", 2),
   Requester("s2", 2, "auth", ZeroUid), Requester("s3", 3, "root", ZeroUid)}
\* The user of a session; s1b is a second session of user 1.
SidUid(sid) ==
  IF sid = "s1b" THEN 1 ELSE (CHOOSE s \in UpdRequesters : s.sid = sid).uid

UpdMsgs ==
  {UpdAcc(user, "auth", "basic", "new:pw", << >>) : user \in {<< >>, UserId(2)}}
  \cup {UpdAcc(user, "auth", "", "", cred) :
          user \in {<< >>, UserId(2)},
          cred \in {<<EmailCred("123456")>>, <<EmailCred("000000")>>, <<TelCred("123456")>>}}
  \cup {UpdAcc(<< >>, "auth", "bogus", "new:pw", << >>),
        UpdAcc(<< >>, "auth", "", "", << >>),
        UpdAcc(UserId(2), "", "basic", "new:pw", << >>),
        UpdAcc(UserId(2), "anon", "", "", <<EmailCred("123456")>>),
        UpdAcc(<<"bad">>, "auth", "basic", "new:pw", << >>)}
DelMsgs == {DelAcc(user, hard) : user \in {<< >>, UserId(2), <<"bad">>}, hard \in BOOLEAN}

\* auth.ParseAuthLevel(name)
ParseAuthLevel(name) == IF name \in {"anon", "auth", "root"} THEN name ELSE "none"

\* store.GetAuthNames()
AuthNames == <<"basic", "token">>
\* The authenticators whose DelRecords fails in a request.
FailingAuth == {{}, {"basic"}}

\* v.DebugResponse, set by Init.
DebugResponse == "123456"

\* store.Users.Get(uid): the row of a user who is not deleted.
UsersGet(uid) == {u \in acct.users : u.uid = uid /\ ~u.deleted}

\* store.Users.GetAllCreds(uid, true): the validated credentials.
GetAllCreds(stored, uid) == {c \in stored : c.uid = uid /\ c.done}

\* store.Users.GetActiveCred(uid, method)
GetActiveCred(stored, uid, method) == {c \in stored : c.uid = uid /\ c.method = method}

\* store.Users.ConfirmCred(uid, method)
ConfirmCred(stored, uid, method) ==
  {IF c.uid = uid /\ c.method = method THEN [c EXCEPT !.done = TRUE] ELSE c : c \in stored}

\* The result of updateCreds: the error, the store's credentials afterwards,
\* and the validated methods returned.  Where updateCreds returns without a
\* panic the map methods is still nil, and ranging over it yields no method.
CredsResult(err, stored) == [err |-> err, creds |-> stored, validated |-> << >>]

\* Validator.Check(uid, response) as updateCreds sees it, for the credentials
\* from the i-th on.  "panic" stands for the write to the nil map methods.
RECURSIVE checkLoop(_, _, _, _)
checkLoop(stored, uid, creds, i) ==
  IF i > Len(creds) THEN {CredsResult("", stored)}
  ELSE LET cr == creds[i] IN
       IF cr.response = "" THEN checkLoop(stored, uid, creds, i + 1)
       ELSE \* store.Users.GetActiveCred fails
            {CredsResult("internal", stored)}
            \cup (IF GetActiveCred(stored, uid, cr.method) = {}
                  THEN {CredsResult("not-found", stored)}
                  ELSE IF cr.response = DebugResponse
                  THEN \* ConfirmCred fails, or the count of the method is written
                       {CredsResult("internal", stored),
                        CredsResult("panic", ConfirmCred(stored, uid, cr.method))}
                  ELSE \* ErrCredentials: the credential stays unvalidated
                       checkLoop(stored, uid, creds, i + 1))

\* Are the counts of the validated methods written?  methods is a nil map.
MethodsWritten(validatedCreds) == validatedCreds # {}

\* updateCreds(uid, authLvl, creds): the possible results.
updateCreds(uid, authLvl, creds) ==
  IF Len(authValidators(authLvl)) = 0 THEN {CredsResult("unsupported", acct.creds)}
  ELSE IF Len(creds) = 0 THEN {CredsResult("", acct.creds)}
  ELSE {CredsResult("internal", acct.creds)}
       \cup (IF MethodsWritten(GetAllCreds(acct.creds, uid))
             THEN {CredsResult("panic", acct.creds)}
             ELSE checkLoop(acct.creds, uid, normalizeCredentials(creds), 1))

\* A request to delete a credential: deleteCred(uid, authLvl, cred).
DelCredReq(uid, authLvl, cred) ==
  [kind |-> "delcred", uid |-> uid, authLvl |-> authLvl, cred |-> cred]

Email2Cred == [method |-> "email", value |-> "a2@x", response |-> ""]
DelCredReqs ==
  {DelCredReq(uid, authLvl, cred) :
     uid \in {1, 2}, authLvl \in {"auth", "anon"},
     cred \in {EmailCred(""), Email2Cred, TelCred(""),
               [method |-> "fax", value |-> "+1", response |-> ""]}}

\* store.Users.DelCred(uid, method, value)
DelCred(stored, uid, method, value) ==
  {c \in stored : ~(c.uid = uid /\ c.method = method /\ c.value = value)}

\* Line 432: is the deletion refused, given the count of the validated
\* credentials of the method?
LastCredential(count) == count < 2

\* deleteCred(uid, authLvl, cred): the possible results.  The count of a
\* method is read from the nil map methods and is 0; "panic" stands for the
\* write to that map at line 429.  vld.Remove is given the method and the
\* value of cred.
deleteCred(uid, authLvl, cred) ==
  IF cred.method \notin Validators THEN {CredsResult("", acct.creds)}
  ELSE LET remove == {CredsResult("", DelCred(acct.creds, uid, cred.method, cred.value)),
                      CredsResult("internal", acct.creds)}
       IN IF cred.method \in Range(authValidators(authLvl))
          THEN {CredsResult("internal", acct.creds)}
               \cup (IF MethodsWritten(GetAllCreds(acct.creds, uid))
                     THEN {CredsResult("panic", acct.creds)}
                     ELSE IF LastCredential(0) THEN {CredsResult("policy", acct.creds)}
                     ELSE remove)
          ELSE remove

\* A credential of a user is deleted.
DeleteCred ==
  /\ acct.nreq < MaxRequests
  /\ \E rq \in DelCredReqs :
       \E r \in deleteCred(rq.uid, rq.authLvl, rq.cred) :
         acct' = [acct EXCEPT !.creds = r.creds, !.req = rq, !.recTags = << >>,
                  !.branch = r.err, !.steps = << >>, !.nreq = acct.nreq + 1,
                  !.res = Outcome(IF r.err = "" THEN "ok" ELSE r.err, rq.uid, FALSE, << >>)]
  /\ UNCHANGED <<callVars, cache, calc>>

\* The tags authhdl.UpdateRecord hands back: unchanged or with the login tag.
UpdateRecordTags(tags, secret) == {tags, <<Tag("basic", secret)>>}

\* The error replyUpdateUser acts upon after the branch has run.  In the
\* credentials branch the := at line 226 declares a new err: the one tested
\* at line 237 is not assigned.
BranchError(msg, err) == IF msg.scheme = "" /\ Len(msg.cred) > 0 THEN "" ELSE err

\* Lines 193-198 of replyUpdateUser: may the session change this account?
MayEdit_Anyone(s, user, userId) == TRUE

MayEdit(s, user, userId) == ~(user # << >> /\ user # userId) \/ s.authLvl = "root"

\* replyUpdateUser(s, msg, rec): s.rec is the user of the token record, ZeroUid
\* when there is none; msg.from is the user of the session.
replyUpdateUser(s, msg) ==
  LET from == UserId(s.uid)
      done(code, uid, users, authRecs, stored, branch, steps, missing) ==
        acct' = [acct EXCEPT !.users = users, !.authRecs = authRecs, !.creds = stored,
                 !.sess = s, !.req = msg, !.recTags = << >>, !.branch = branch,
                 !.steps = steps, !.nreq = acct.nreq + 1,
                 !.res = Outcome(code, uid, FALSE, missing)]
      reject(code, uid) ==
        done(code, uid, acct.users, acct.authRecs, acct.creds, "",
             <<Step("reply", code)>>, << >>)
  IN
  IF s.uid = ZeroUid /\ s.rec = ZeroUid THEN reject("permission-denied", ZeroUid)
  ELSE IF from # << >> /\ s.rec # ZeroUid THEN reject("malformed", ZeroUid)
  ELSE
    LET userId0 == IF s.rec # ZeroUid THEN UserId(s.rec) ELSE from
        authLvl0 == IF s.rec # ZeroUid THEN "auth" ELSE s.authLvl
        other == msg.user # << >> /\ msg.user # userId0
        userId == IF other THEN msg.user ELSE userId0
        authLvl == IF other THEN ParseAuthLevel(msg.authLevel) ELSE authLvl0
        uid == ParseUserId(userId)
    IN
    IF ~MayEdit(s, msg.user, userId0) THEN reject("permission-denied", ZeroUid)
    ELSE IF uid = ZeroUid \/ authLvl = "none" THEN reject("malformed", uid)
    ELSE
      \* store.Users.Get(uid) fails
      \/ reject("internal", uid)
      \/ IF UsersGet(uid) = {} THEN reject("not-found", uid)
         ELSE
           LET user == CHOOSE u \in UsersGet(uid) : TRUE
               finish(branch, users, authRecs, stored, missing) ==
                 LET err == BranchError(msg, branch) IN
                 IF branch = "panic"
                 THEN done("panic", uid, users, authRecs, stored, branch, << >>, << >>)
                 ELSE IF err # ""
                 THEN done(err, uid, users, authRecs, stored, branch,
                           <<Step("reply", err)>>, << >>)
                 ELSE done("ok", uid, users, authRecs, stored, branch,
                           <<Step("reply", "ok"), Step("plugin", uid)>>, missing)
           IN
           IF msg.scheme # ""
           THEN \* updateUserAuth(msg, user, rec)
                IF msg.scheme \notin AuthHandlers
                THEN finish("malformed", acct.users, acct.authRecs, acct.creds, << >>)
                ELSE \/ finish("internal", acct.users, acct.authRecs, acct.creds, << >>)
                     \/ \E tags \in UpdateRecordTags(user.tags, msg.secret),
                           tagsOk \in BOOLEAN :
                          finish("",
                                 IF tagsOk THEN UsersUpdateTags(acct.users, uid, tags)
                                 ELSE acct.users,
                                 {IF r.uid = uid /\ r.scheme = msg.scheme
                                  THEN [r EXCEPT !.secret = msg.secret] ELSE r :
                                    r \in acct.authRecs},
                                 acct.creds, << >>)
           ELSE IF Len(msg.cred) > 0
           THEN \E r \in updateCreds(uid, authLvl, msg.cred) :
                  \* lines 227-232: the required methods not validated go
                  \* into the reply
                  finish(r.err, acct.users, acct.authRecs, r.creds,
                         IF r.err = "" THEN Missing(authValidators(authLvl), r.validated)
                         ELSE << >>)
           ELSE finish("malformed", acct.users, acct.authRecs, acct.creds, << >>)

\* globals.sessionStore.EvictUser(uid, skipSid): the sessions left running.
EvictUser(live, uid, skipSid) == {sid \in live : SidUid(sid) # uid \/ sid = skipSid}

\* authhdl.DelRecords(uid) of the authenticators in names, from the i-th on;
\* failed holds the authenticators whose DelRecords fails.
RECURSIVE delRecords(_, _, _, _)
delRecords(authRecs, uid, failed, i) ==
  IF i > Len(AuthNames) THEN [authRecs |-> authRecs, steps |-> << >>]
  ELSE LET name == AuthNames[i]
           ok == name \notin failed
           rest == delRecords(IF ok THEN {r \in authRecs : ~(r.uid = uid /\ r.scheme = name)}
                              ELSE authRecs, uid, failed, i + 1)
       IN [authRecs |-> rest.authRecs,
           steps |-> <<Step("DelRecords", name)>> \o rest.steps]

\* Lines 516-521 of replyDelUser: the reply is queued, then the session of the
\* deleted user is stopped.
ReplyAndStop_StopFirst(s, uid, code) ==
  (IF s.uid = uid THEN <<Step("stop", s.sid)>> ELSE << >>) \o <<Step("reply", code)>>

ReplyAndStop(s, uid, code) ==
  <<Step("reply", code)>> \o (IF s.uid = uid THEN <<Step("stop", s.sid)>> ELSE << >>)

\* Lines 454-467 of replyDelUser: the account to delete and the error reply.
DelTarget(s, user) ==
  IF user = << >> \/ user = UserId(s.uid) THEN [uid |-> s.uid, err |-> ""]
  ELSE IF s.authLvl = "root"
  THEN [uid |-> ParseUserId(user),
        err |-> IF ParseUserId(user) = ZeroUid THEN "malformed" ELSE ""]
  ELSE [uid |-> ZeroUid, err |-> "permission-denied"]

\* replyDelUser(s, msg)
replyDelUser(s, msg) ==
  LET tgt == DelTarget(s, msg.user)
      uid == tgt.uid
      done(code, users, authRecs, live, steps) ==
        acct' = [acct EXCEPT !.users = users, !.authRecs = authRecs,
                 !.live = IF s.uid = uid THEN live \ {s.sid} ELSE live,
                 !.sess = s, !.req = msg, !.recTags = << >>, !.branch = "",
                 !.steps = steps \o ReplyAndStop(s, uid, code), !.nreq = acct.nreq + 1,
                 !.res = Outcome(code, uid, FALSE, << >>)]
  IN
  IF tgt.err # "" THEN done(tgt.err, acct.users, acct.authRecs, acct.live, << >>)
  ELSE
    \E failed \in FailingAuth, subsOk \in BOOLEAN, delOk \in BOOLEAN :
      LET recs == delRecords(acct.authRecs, uid, failed, 1)
          live == EvictUser(acct.live, uid, s.sid)
          steps == recs.steps
                   \o <<Step("EvictUser", acct.live \ live), Step("unreg", uid),
                        Step("done", uid)>>
                   \o (IF subsOk THEN <<Step("pres", uid)>> ELSE << >>)
                   \o <<Step("Users.Delete", uid)>>
      IN done(IF delOk THEN "ok" ELSE "internal",
              UsersDelete(acct.users, uid, msg.hard, delOk), recs.authRecs, live, steps)

\* A client asks to change an account: {acc user=...}.
ReplyUpdateUser ==
  /\ \E s \in UpdRequesters, msg \in UpdMsgs :
       s.sid \in acct.live /\ acct.nreq < MaxRequests /\ replyUpdateUser(s, msg)
  /\ UNCHANGED <<callVars, cache, calc>>

\* A client asks to delete an account: {del what="user"}.
ReplyDelUser ==
  /\ \E s \in UpdRequesters, msg \in DelMsgs :
       s.sid \in acct.live /\ s.rec = ZeroUid /\ acct.nreq < MaxRequests /\ replyDelUser(s, msg)
  /\ UNCHANGED <<callVars, cache, calc>>

(***************************************************************************)
(* The tel validator (server/validate/tel).  Its credential records hold   *)
(* beside [uid, method, value, done] the response expected (resp) and the  *)
(* count of failed checks (retries).  acct.req is the last call of Check   *)
(* and acct.res what it returned.                                          *)
(***************************************************************************)
\* const validatorName
validatorName == "tel"

\* v.MaxRetries, set by Init.
MaxRetries == 1000

\* store.Users.FailCred(uid, method): the count of failed checks grows by one.
FailCred(stored, uid, method) ==
  {IF c.uid = uid /\ c.method = method THEN [c EXCEPT !.retries = c.retries + 1] ELSE c :
     c \in stored}

\* What Check returns, and the credentials in the store afterwards.
Checked(value, err, stored) == [value |-> value, err |-> err, creds |-> stored]

\* Line 58 of Check: cred.Retries > v.MaxRetries
RetriesExceeded_AtLimit(retries) == retries >= MaxRetries

RetriesExceeded(retries) == retries > MaxRetries

\* validator.Check(user, resp): the possible results.  The error of
\* FailCred is ignored.
Check(stored, user, resp) ==
  \* store.Users.GetActiveCred fails
  {Checked("", "internal", stored)}
  \cup (IF GetActiveCred(stored, user, validatorName) = {}
        THEN {Checked("", "not-found", stored)}
        ELSE LET cred == CHOOSE c \in GetActiveCred(stored, user, validatorName) : TRUE IN
             IF RetriesExceeded(cred.retries) THEN {Checked("", "policy", stored)}
             ELSE IF resp = "" THEN {Checked("", "credentials", stored)}
             ELSE IF cred.resp = resp \/ DebugResponse = resp
             THEN {Checked(cred.value, "", ConfirmCred(stored, user, validatorName)),
                   Checked(cred.value, "internal", stored)}
             ELSE {Checked("", "credentials", FailCred(stored, user, validatorName)),
                   Checked("", "credentials", stored)})

\* The responses the clients give: none, the debug response, the response
\* stored with the credential, a wrong one.
StoredResponse == "4321"
TelResponses == {"", DebugResponse, StoredResponse, "000000"}

\* A call of Check of the tel validator.
TelCall(uid, resp) == [kind |-> "check", uid |-> uid, resp |-> resp]

\* A client answers the challenge of the credential of a user: Check(user, resp).
TelCheck ==
  /\ \E user \in {1, 2}, resp \in TelResponses :
       \E r \in Check(acct.creds, user, resp) :
         acct' = [acct EXCEPT !.creds = r.creds, !.req = TelCall(user, resp),
                              !.res = [code |-> r.err, value |-> r.value]]
  /\ UNCHANGED <<callVars, cache, calc>>

(***************************************************************************)
(* The users cache (usersCache, userUpdater).  cache holds                 *)
(*   usersCache   the cache map: for each user the entry, NoEntry when the *)
(*                user has no entry                                        *)
(*   usersUpdate  the updates in the channel globals.usersUpdate           *)
(*   running      "running", "stopped" once the updater has left its loop, *)
(*                "panic" once it has panicked                             *)
(*   loaded       for each user the result of GetUnreadCount, if the last  *)
(*                step was an update that loaded the count                 *)
(*   pushed       the receipt handed to push.Push, if the last step was an *)
(*                update that handed one over                              *)
(*   regs, unregs for each user the registrations and the                  *)
(*                un-registrations the updater has processed               *)
(*   want         for each user the registrations less the                 *)
(*                un-registrations the topics have called for              *)
(*   ncalls       the number of calls of usersUpdateUnread, usersPush and  *)
(*                usersRegisterTopic so far                                *)
(*   statsUpdate  the messages sent to the channel globals.statsUpdate     *)
(*   shutdown     usersShutdown has been called                            *)
(*   call         the function called and the update it made, if the last  *)
(*                step was a call of usersUpdateUnread, usersPush or       *)
(*                usersRegisterTopic                                       *)
(***************************************************************************)
\* Capacity of the channel globals.usersUpdate in the model.
QueueCap == 1
\* The most topics a user is registered with in a run.
MaxTopics == 2
\* The highest unread count followed in a run.
MaxUnread == 2
\* The most calls of usersUpdateUnread, usersPush and usersRegisterTopic in a run.
MaxUpdates == 3

\* "not loaded": the unread count of a user registered without loading it.
NotLoaded == 0 - 1

CacheUids == {1, 2}

\* usersCache[uid] for a user without entry: ok is false, the entry is zero.
NoEntry == [ok |-> FALSE, unread |-> 0, topics |-> 0]

\* *userUpdate; stop stands for the nil update, pushRcpt = {} for no receipt,
\* otherwise pushRcpt holds the users of rcpt.To.
userUpdate(uid, uidList, unread, inc, pushRcpt) ==
  [stop |-> FALSE, uid |-> uid, uidList |-> uidList, unread |-> unread, inc |-> inc,
   pushRcpt |-> pushRcpt]

\* store.Users.GetUnreadCount(uid): an error or the count.
DbResult(err, count) == [err |-> err, count |-> count]
DbResults == {DbResult(TRUE, 0), DbResult(FALSE, 0), DbResult(FALSE, 2)}

\* The users whose count the update upd makes the updater load.
Loads(c, upd) ==
  {uid \in (IF upd.pushRcpt # {} THEN upd.pushRcpt
            ELSE IF Len(upd.uidList) > 0 THEN {} ELSE {upd.uid}) :
     c.usersCache[uid].ok /\ c.usersCache[uid].unread < 0}
NoLoad == [done |-> FALSE, err |-> FALSE, count |-> 0]
Loaded(r) == [done |-> TRUE, err |-> r.err, count |-> r.count]

\* The receipt handed to push.Push: the unread counts written into rcpt.To.
NoPush == [sent |-> FALSE, to |-> {}]

\* A call of usersUpdateUnread, usersPush or usersRegisterTopic.
UserCall(fn, upd) == [fn |-> fn, upd |-> upd]
NoUserCall == UserCall("", userUpdate(ZeroUid, << >>, 0, FALSE, {}))

CacheInit ==
  [usersCache |-> [uid \in CacheUids |-> NoEntry],
   usersUpdate |-> << >>,
   running |-> "running",
   loaded |-> [uid \in CacheUids |-> NoLoad],
   pushed |-> NoPush,
   regs |-> [uid \in CacheUids |-> 0],
   unregs |-> [uid \in CacheUids |-> 0],
   want |-> [uid \in CacheUids |-> 0],
   ncalls |-> 0,
   statsUpdate |-> << >>,
   shutdown |-> FALSE,
   call |-> NoUserCall]

\* The state of one run of the updater's loop body.
LoopState(c) ==
  [uc |-> c.usersCache, regs |-> c.regs, unregs |-> c.unregs, loaded |-> [uid \in CacheUids |-> NoLoad],
   annotated |-> {}, ret |-> 0, panic |-> FALSE]

\* Lines 628-632: the new count of an entry whose count is loaded.
UnreadAfter_Set(unread, val, inc) == val

UnreadAfter(unread, val, inc) == IF inc THEN unread + val ELSE val

\* unreadUpdater(uid, val, inc); db[uid] is what GetUnreadCount returns.
unreadUpdater(st, uid, val, inc, db) ==
  IF st.panic THEN st
  ELSE LET uce == st.uc[uid] IN
       IF ~uce.ok THEN [st EXCEPT !.panic = TRUE]
       ELSE IF uce.unread < 0
       THEN IF db[uid].err
            THEN [st EXCEPT !.loaded[uid] = Loaded(db[uid]), !.ret = NotLoaded]
            ELSE [st EXCEPT !.uc[uid].unread = db[uid].count,
                            !.loaded[uid] = Loaded(db[uid]),
                            !.ret = db[uid].count]
       ELSE LET n == UnreadAfter(uce.unread, val, inc)
            IN [st EXCEPT !.uc[uid].unread = n, !.ret = n]

\* Line 650: is the count unread written into the entry of the receipt?
Annotated_Always(unread) == TRUE

Annotated(unread) == unread >= 0

\* Lines 647-654: the users of the receipt, taken in ascending order.
RECURSIVE pushLoop(_, _, _)
pushLoop(st, to, db) ==
  IF to = {} \/ st.panic THEN st
  ELSE LET uid == CHOOSE u \in to : \A v \in to : u <= v
           r == unreadUpdater(st, uid, 1, TRUE, db)
       IN pushLoop(IF ~r.panic /\ Annotated(r.ret)
                   THEN [r EXCEPT !.annotated = @ \cup {[uid |-> uid, unread |-> r.ret]}]
                   ELSE r,
                   to \ {uid}, db)

\* Line 671: does the user stay in the cache when a topic is un-registered?
StaysCached_Always(uce) == uce.topics > 0

StaysCached(uce) == uce.topics > 1

\* Lines 660-682: the users of uidList from the i-th on.
RECURSIVE topicLoop(_, _, _, _)
topicLoop(st, uidList, inc, i) ==
  IF i > Len(uidList) \/ st.panic THEN st
  ELSE LET uid == uidList[i]
           uce == st.uc[uid]
       IN topicLoop(
            IF inc
            THEN [st EXCEPT !.uc[uid] = [ok |-> TRUE,
                                         unread |-> IF uce.ok THEN uce.unread ELSE NotLoaded,
                                         topics |-> uce.topics + 1],
                            !.regs[uid] = @ + 1]
            ELSE IF uce.ok
            THEN [st EXCEPT !.uc[uid] = IF StaysCached(uce)
                                        THEN [uce EXCEPT !.topics = @ - 1]
                                        ELSE NoEntry,
                            !.unregs[uid] = @ + 1]
            ELSE [st EXCEPT !.panic = TRUE],
            uidList, inc, i + 1)

\* The body of the loop of userUpdater for the update upd.
userUpdater(c, upd, db) ==
  IF upd.pushRcpt # {} THEN pushLoop(LoopState(c), upd.pushRcpt, db)
  ELSE IF Len(upd.uidList) > 0 THEN topicLoop(LoopState(c), upd.uidList, upd.inc, 1)
  ELSE unreadUpdater(LoopState(c), upd.uid, upd.unread, upd.inc, db)

\* The updater goroutine takes the next update from the channel.
UserUpdater ==
  /\ cache.running = "running"
  /\ cache.usersUpdate # << >>
  /\ LET upd == Head(cache.usersUpdate) IN
     IF upd.stop
     THEN cache' = [cache EXCEPT !.usersUpdate = Tail(@), !.running = "stopped",
                                 !.call = NoUserCall,
                                 !.loaded = [uid \in CacheUids |-> NoLoad],
                                 !.pushed = NoPush]
     ELSE \E db \in [CacheUids -> DbResults] :
            LET r == userUpdater(cache, upd, db) IN
            /\ \A uid \in CacheUids \ Loads(cache, upd) : db[uid] = DbResult(FALSE, 0)
            /\ \A uid \in CacheUids : r.uc[uid].unread <= MaxUnread
            /\ cache' = [cache EXCEPT
                           !.usersUpdate = Tail(@),
                           !.call = NoUserCall,
                           !.usersCache = r.uc,
                           !.regs = r.regs,
                           !.unregs = r.unregs,
                           !.loaded = r.loaded,
                           !.pushed = IF upd.pushRcpt # {} /\ ~r.panic
                                      THEN [sent |-> TRUE, to |-> r.annotated]
                                      ELSE NoPush,
                           !.running = IF r.panic THEN "panic" ELSE @]
  /\ UNCHANGED <<callVars, acct, calc>>

\* The cache c after the call of fn that made the update upd.
Called(c, fn, upd) ==
  [c EXCEPT !.ncalls = @ + 1, !.call = UserCall(fn, upd),
            !.loaded = [uid \in CacheUids |-> NoLoad], !.pushed = NoPush]

\* select { case globals.usersUpdate <- upd: default: }
Enqueue(c, upd) ==
  IF c.running = "running" /\ Len(c.usersUpdate) < QueueCap
  THEN [c EXCEPT !.usersUpdate = Append(@, upd)]
  ELSE c

\* Line 562: is the unread update sent at all?
UnreadSent_Always(val, inc) == TRUE

UnreadSent(val, inc) == ~inc \/ val # 0

\* usersUpdateUnread(uid, val, inc), called for the users of an active topic.
UsersUpdateUnread ==
  /\ cache.running # "panic"
  /\ cache.ncalls < MaxUpdates
  /\ \E uid \in CacheUids, inc \in BOOLEAN, val \in {0 - 1, 0, 1} :
       LET upd == userUpdate(uid, << >>, val, inc, {}) IN
       /\ cache.want[uid] > 0
       /\ inc \/ val >= 0
       /\ cache' = Called(IF UnreadSent(val, inc) THEN Enqueue(cache, upd) ELSE cache,
                          "usersUpdateUnread", upd)
  /\ UNCHANGED <<callVars, acct, calc>>

\* usersPush(rcpt), called for the users of an active topic.
UsersPush ==
  /\ cache.running # "panic"
  /\ cache.ncalls < MaxUpdates
  /\ \E to \in {{1}, {1, 2}} :
       LET upd == userUpdate(ZeroUid, << >>, 0, FALSE, to) IN
       /\ \A uid \in to : cache.want[uid] > 0
       /\ cache' = Called(Enqueue(cache, upd), "usersPush", upd)
  /\ UNCHANGED <<callVars, acct, calc>>

\* usersRegisterTopic(t, uid, add): a topic is loaded (add) or unloaded; a
\* topic is unloaded after it was loaded.  uidList holds the users of
\* t.perUser (none for a me or fnd topic) or the one user uid.
UsersRegisterTopic ==
  /\ cache.running # "panic"
  /\ cache.ncalls < MaxUpdates
  /\ \E uidList \in {<< >>, <<1>>, <<2>>, <<1, 2>>}, add \in BOOLEAN :
       LET upd == userUpdate(ZeroUid, uidList, 0, add, {}) IN
       /\ \A uid \in Range(uidList) :
            IF add THEN cache.want[uid] < MaxTopics ELSE cache.want[uid] > 0
       /\ cache' = [Called(IF Len(uidList) = 0 THEN cache ELSE Enqueue(cache, upd),
                           "usersRegisterTopic", upd) EXCEPT
                      !.want = [uid \in CacheUids |->
                                  IF uid \in Range(uidList)
                                  THEN (IF add THEN @[uid] + 1 ELSE @[uid] - 1)
                                  ELSE @[uid]]]
  /\ UNCHANGED <<callVars, acct, calc>>

\* usersShutdown(), called once when the server stops.
UsersShutdown ==
  /\ cache.running # "panic"
  /\ ~cache.shutdown
  /\ cache' = [cache EXCEPT !.shutdown = TRUE, !.statsUpdate = Append(@, "nil"),
                            !.call = NoUserCall,
                            !.loaded = [uid \in CacheUids |-> NoLoad], !.pushed = NoPush]
  /\ UNCHANGED <<callVars, acct, calc>>

(***************************************************************************)
(* Conversions of access modes: the inputs and the actions.                *)
(***************************************************************************)
\* The modes of 8 bits.
Modes8 == 0 .. ModeCFull

\* The texts given to UnmarshalText, and the modes of the variables read into.
ModeChars == {"J", "R", "N", "j", "n", "x"}
ModeTexts == UNION {[1 .. n -> ModeChars] : n \in 0 .. MaxTextLen}
ParseTargets == {ModeNone, ModeCFull}

\* No conversion.
NoCalc == [fn |-> ""]

\* A mode m before a conversion is applied to it.
ModeCalc(fn, m, n, text, err, res) ==
  [fn |-> fn, m |-> m, n |-> n, text |-> text, err |-> err, out |-> res]

\* m is converted to text and the text is read back into a variable holding n.
MarshalUnmarshal ==
  /\ calc.fn = ""
  /\ \E n \in ParseTargets :
       LET t == MarshalText(calc.m)
           r == UnmarshalText(n, t.text)
       IN calc' = ModeCalc("MarshalText", calc.m, n, t.text, t.err \/ r.err, r.m)
  /\ UNCHANGED <<callVars, acct, cache>>

\* The text b is read into a variable holding m.
ParseMode ==
  /\ calc.fn = ""
  /\ calc.m \in ParseTargets
  /\ \E b \in ModeTexts :
       LET r == UnmarshalText(calc.m, b)
       IN calc' = ModeCalc("UnmarshalText", calc.m, calc.m, b, r.err, r.m)
  /\ UNCHANGED <<callVars, acct, cache>>

\* m.Delta(n)
ModeDelta ==
  /\ calc.fn = ""
  /\ \E n \in Modes8 :
       calc' = ModeCalc("Delta", calc.m, n, Delta(calc.m, n), FALSE, n)
  /\ UNCHANGED <<callVars, acct, cache>>

(***************************************************************************)
(* User ids (store/types).  A Uid of 64 bits is the sequence of its four   *)
(* words of 16 bits, the most significant first; a byte slice is the       *)
(* sequence of its bytes; a text is the sequence of its characters, a      *)
(* character of the base64 URL alphabet being its index in the alphabet.   *)
(***************************************************************************)
uidBase64Unpadded == 11
uidBase64Padded == 12
p2pBase64Unpadded == 22
p2pBase64Padded == 24

\* The characters '=' and '"', which are not in the alphabet.
PadChar == 64
QuoteChar == 65
\* "usr" and "p2p"
usrPrefix == <<46, 44, 43>>
p2pPrefix == <<41, 54, 41>>

Uid64(w3, w2, w1, w0) == <<w3, w2, w1, w0>>
ZeroUid64 == Uid64(0, 0, 0, 0)
MaxWord == 2 ^ 16 - 1

\* The user ids converted in a run.
UidInputs ==
  {ZeroUid64, Uid64(0, 0, 0, 1), Uid64(0, 0, 0, 2), Uid64(0, 0, 0, 256),
   Uid64(0, 0, 0, MaxWord), Uid64(0, 0, 1, 0), Uid64(0, 1, 0, 0), Uid64(1, 0, 0, 0),
   Uid64(256, 0, 0, 1), Uid64(1, 0, 0, 256), Uid64(2 ^ 15, 0, 0, 0),
   Uid64(MaxWord, MaxWord, MaxWord, MaxWord)}

\* uid.IsZero()
IsZero(uid) == uid = ZeroUid64

\* uid < u2
RECURSIVE lessFrom(_, _, _)
lessFrom(a, b, i) ==
  IF i > Len(a) THEN FALSE
  ELSE IF a[i] # b[i] THEN a[i] < b[i]
  ELSE lessFrom(a, b, i + 1)

\* binary.LittleEndian.PutUint64(dst, uint64(uid)): the least significant
\* byte first.
PutUint64_BigEndian(uid) ==
  <<uid[1] \div 256, uid[1] % 256, uid[2] \div 256, uid[2] % 256,
    uid[3] \div 256, uid[3] % 256, uid[4] \div 256, uid[4] % 256>>

PutUint64(uid) ==
  <<uid[4] % 256, uid[4] \div 256, uid[3] % 256, uid[3] \div 256,
    uid[2] % 256, uid[2] \div 256, uid[1] % 256, uid[1] \div 256>>

\* Uid(binary.LittleEndian.Uint64(b)): the first 8 bytes of b.
Uint64(b) ==
  Uid64(b[7] + 256 * b[8], b[5] + 256 * b[6], b[3] + 256 * b[4], b[1] + 256 * b[2])

\* The order of the ids in a p2p name: is uid the first?
UidLess_Bytes(uid, u2) == lessFrom(PutUint64(uid), PutUint64(u2), 1)

UidLess(uid, u2) == lessFrom(uid, u2, 1)

\* base64.URLEncoding.Encode / EncodeToString: 3 bytes make 4 characters, the
\* last group is padded.
RECURSIVE Encode(_)
Encode(src) ==
  IF Len(src) = 0 THEN << >>
  ELSE IF Len(src) = 1
  THEN <<src[1] \div 4, (src[1] % 4) * 16, PadChar, PadChar>>
  ELSE IF Len(src) = 2
  THEN <<src[1] \div 4, (src[1] % 4) * 16 + src[2] \div 16, (src[2] % 16) * 4, PadChar>>
  ELSE <<src[1] \div 4, (src[1] % 4) * 16 + src[2] \div 16,
         (src[2] % 16) * 4 + src[3] \div 64, src[3] % 64>>
       \o Encode(SubSeq(src, 4, Len(src)))

\* The result of base64.URLEncoding.Decode: the bytes written and the error.
Decoded(dec, err) == [n |-> Len(dec), err |-> err, dec |-> dec]

\* base64.URLEncoding.Decode: 4 characters make 3 bytes; padding ends the
\* input; a character that is not in the alphabet is an error.
RECURSIVE Decode(_)
Decode(src) ==
  IF Len(src) = 0 THEN Decoded(<< >>, FALSE)
  ELSE IF Len(src) < 4 THEN Decoded(<< >>, TRUE)
  ELSE LET c == SubSeq(src, 1, 4)
           rest == SubSeq(src, 5, Len(src))
           b1 == c[1] * 4 + c[2] \div 16
           b2 == (c[2] % 16) * 16 + c[3] \div 4
           b3 == (c[3] % 4) * 64 + c[4]
       IN IF c[1] >= PadChar \/ c[2] >= PadChar THEN Decoded(<< >>, TRUE)
          ELSE IF c[3] = PadChar
          THEN (IF c[4] = PadChar /\ rest = << >> THEN Decoded(<<b1>>, FALSE)
                ELSE Decoded(<< >>, TRUE))
          ELSE IF c[3] > PadChar THEN Decoded(<< >>, TRUE)
          ELSE IF c[4] = PadChar
          THEN (IF rest = << >> THEN Decoded(<<b1, b2>>, FALSE)
                ELSE Decoded(<<b1>>, TRUE))
          ELSE IF c[4] > PadChar THEN Decoded(<<b1, b2>>, TRUE)
          ELSE LET r == Decode(rest) IN Decoded(<<b1, b2, b3>> \o r.dec, r.err)

\* for len(src) < padded { src = append(src, '=') }
RECURSIVE padTo(_, _)
padTo(src, padded) == IF Len(src) < padded THEN padTo(Append(src, PadChar), padded) ELSE src

\* The result of reading a Uid: the error and the value of the variable.
UidResult(err, uid) == [err |-> err, uid |-> uid]

\* Uid.MarshalBinary
UidMarshalBinary(uid) == PutUint64(uid)

\* Uid.UnmarshalBinary on a variable that holds uid
UidUnmarshalBinary(uid, b) ==
  IF Len(b) < 8 THEN UidResult(TRUE, uid) ELSE UidResult(FALSE, Uint64(b))

\* Uid.UnmarshalText on a variable that holds uid
UidUnmarshalText(uid, src) ==
  IF Len(src) # uidBase64Unpadded THEN UidResult(TRUE, uid)
  ELSE LET r == Decode(padTo(src, uidBase64Padded)) IN
       IF r.n < 8 THEN UidResult(TRUE, uid) ELSE UidResult(FALSE, Uint64(r.dec))

\* Uid.MarshalText
UidMarshalText(uid) ==
  IF IsZero(uid) THEN << >>
  ELSE SubSeq(Encode(PutUint64(uid)), 1, uidBase64Unpadded)

\* Uid.MarshalJSON
UidMarshalJSON(uid) == <<QuoteChar>> \o UidMarshalText(uid) \o <<QuoteChar>>

\* Uid.UnmarshalJSON on a variable that holds uid
UidUnmarshalJSON(uid, b) ==
  IF Len(b) # uidBase64Unpadded + 2 THEN UidResult(TRUE, uid)
  ELSE IF b[1] # QuoteChar \/ b[Len(b)] # QuoteChar THEN UidResult(TRUE, uid)
  ELSE UidUnmarshalText(uid, SubSeq(b, 2, Len(b) - 1))

\* strings.HasPrefix(s, prefix)
HasPrefix(s, prefix) == Len(s) >= Len(prefix) /\ SubSeq(s, 1, Len(prefix)) = prefix

\* Uid.PrefixId, Uid.UserId
PrefixId(uid, prefix) == IF IsZero(uid) THEN << >> ELSE prefix \o UidMarshalText(uid)
UidUserId(uid) == PrefixId(uid, usrPrefix)

\* ParseUserId: the error of UnmarshalText is dropped.
UidParseUserId(s) ==
  IF HasPrefix(s, usrPrefix)
  THEN UidUnmarshalText(ZeroUid64, SubSeq(s, Len(usrPrefix) + 1, Len(s))).uid
  ELSE ZeroUid64

\* Uid.P2PName
P2PName(uid, u2) ==
  IF ~IsZero(uid) /\ ~IsZero(u2)
  THEN IF UidLess(uid, u2)
       THEN p2pPrefix \o SubSeq(Encode(UidMarshalBinary(uid) \o UidMarshalBinary(u2)),
                                1, p2pBase64Unpadded)
       ELSE IF UidLess(u2, uid)
       THEN p2pPrefix \o SubSeq(Encode(UidMarshalBinary(u2) \o UidMarshalBinary(uid)),
                                1, p2pBase64Unpadded)
       ELSE << >>
  ELSE << >>

\* ParseP2P: the error and the two ids.
ParseP2P(p2p) ==
  IF HasPrefix(p2p, p2pPrefix)
  THEN LET src == SubSeq(p2p, Len(p2pPrefix) + 1, Len(p2p)) IN
       IF Len(src) # p2pBase64Unpadded
       THEN [err |-> TRUE, uid1 |-> ZeroUid64, uid2 |-> ZeroUid64]
       ELSE LET r == Decode(padTo(src, p2pBase64Padded)) IN
            IF r.n < 16 THEN [err |-> TRUE, uid1 |-> ZeroUid64, uid2 |-> ZeroUid64]
            ELSE [err |-> r.err, uid1 |-> Uint64(r.dec),
                  uid2 |-> Uint64(SubSeq(r.dec, 9, 16))]
  ELSE [err |-> TRUE, uid1 |-> ZeroUid64, uid2 |-> ZeroUid64]

\* A conversion of the user id uid: the function, the second id, the encoded
\* forms, the error and the ids read back.
UidCalc(fn, uid, u2, text, text2, err, res, res2) ==
  [fn |-> fn, uid |-> uid, u2 |-> u2, text |-> text, text2 |-> text2, err |-> err,
   out |-> res, out2 |-> res2]

\* The result r of reading the form text of calc.uid with the function fn.
UidRead(fn, text, r) ==
  UidCalc(fn, calc.uid, ZeroUid64, text, << >>, r.err, r.uid, ZeroUid64)

\* The variables the ids are read into hold the id into at first.
UidBinary ==
  /\ calc.fn = ""
  /\ \E into \in {ZeroUid64, Uid64(0, 0, 0, 2)} :
       calc' = UidRead("MarshalBinary", UidMarshalBinary(calc.uid),
                       UidUnmarshalBinary(into, UidMarshalBinary(calc.uid)))
  /\ UNCHANGED <<callVars, acct, cache>>

UidText ==
  /\ calc.fn = ""
  /\ \E into \in {ZeroUid64, Uid64(0, 0, 0, 2)} :
       calc' = UidRead("MarshalText", UidMarshalText(calc.uid),
                       UidUnmarshalText(into, UidMarshalText(calc.uid)))
  /\ UNCHANGED <<callVars, acct, cache>>

UidJSON ==
  /\ calc.fn = ""
  /\ \E into \in {ZeroUid64, Uid64(0, 0, 0, 2)} :
       calc' = UidRead("MarshalJSON", UidMarshalJSON(calc.uid),
                       UidUnmarshalJSON(into, UidMarshalJSON(calc.uid)))
  /\ UNCHANGED <<callVars, acct, cache>>

UidUser ==
  /\ calc.fn = ""
  /\ calc' = UidRead("UserId", UidUserId(calc.uid),
                     UidResult(FALSE, UidParseUserId(UidUserId(calc.uid))))
  /\ UNCHANGED <<callVars, acct, cache>>

\* A text of another length, or with a character that is not in the
\* alphabet, is read: the text of calc.uid cut or extended to n characters,
\* or with its last character replaced.
UidTextRead ==
  /\ calc.fn = ""
  /\ \E n \in 0 .. uidBase64Padded + 1, bad \in BOOLEAN :
       LET long == Encode(PutUint64(calc.uid)) \o <<0, 0>>
           cut == SubSeq([i \in DOMAIN long |-> IF long[i] = PadChar THEN 0 ELSE long[i]],
                         1, n)
           text == IF bad /\ n > 0 THEN [cut EXCEPT ![n] = QuoteChar] ELSE cut
       IN calc' = UidRead("UnmarshalText", text, UidUnmarshalText(ZeroUid64, text))
  /\ UNCHANGED <<callVars, acct, cache>>

\* The p2p name of calc.uid and u2 is made both ways and read back.
UidP2P ==
  /\ calc.fn = ""
  /\ \E u2 \in UidInputs :
       LET name == P2PName(calc.uid, u2)
           r == ParseP2P(name)
       IN calc' = UidCalc("P2PName", calc.uid, u2, name, P2PName(u2, calc.uid), r.err,
                          r.uid1, r.uid2)
  /\ UNCHANGED <<callVars, acct, cache>>

(***************************************************************************)
(* Actions of the topic.                                                   *)
(***************************************************************************)
NoteSeqIds == {currentCall.seq, lastID + 1}

\* A client publishes a call invite: {pub head=[mime: application/x-tinode-webrtc]}.
\* The topic passes on the messages of its subscribers.
HandleCallInvite ==
  \E s \in Sessions : SessUid(s) \in perUser /\ handleCallInvite(s)

\* A client sends {note what=call}.
HandleCallEvent ==
  \E s \in Sessions, ev \in NoteEvents, sq \in NoteSeqIds :
    \E pl \in PayloadsFor(ev) : handleCallEvent(s, ev, sq, pl)

\* The establishment timer fires: the topic ends the call.
CallEstablishmentTimeout ==
  /\ timerArmed
  /\ terminateCallInProgress(Request("timeout", NoSession, "", 0, NoPayload), FALSE)

\* The server ends the call (a party's session is gone, the topic shuts down).
ServerTerminate ==
  \E r \in {Request("terminate", NoSession, "", 0, NoPayload)} :
    terminateCallInProgress(r, timerArmed)

\* An ordinary message is published to the topic.
Publish ==
  /\ lastID + 1 + Reserve <= MaxLastID
  /\ lastID' = lastID + 1
  /\ evt' = Request("msg", NoSession, "", 0, NoPayload)
  /\ out' = << >>
  /\ saved' = {}
  /\ saveErr' = FALSE
  /\ UNCHANGED <<cat, perUser, inactive, currentCall, timerArmed, anchor, hist, origFwd, acct, cache, calc>>

\* The topic is paused or resumed.
SetInactive ==
  /\ inactive' = ~inactive
  /\ evt' = Request("pause", NoSession, "", 0, NoPayload)
  /\ out' = << >>
  /\ saved' = {}
  /\ saveErr' = FALSE
  /\ UNCHANGED <<cat, perUser, lastID, currentCall, timerArmed, anchor, hist, origFwd, acct, cache, calc>>

\* The state of the topic after construction.
InitCall ==
  /\ cat \in {TopicCatP2P, TopicCatGrp}
  /\ perUser = PerUserOf(cat)
  /\ inactive = FALSE
  /\ lastID = InitLastID
  /\ currentCall = NoCall
  /\ timerArmed = FALSE
  /\ evt = Request("init", NoSession, "", 0, NoPayload)
  /\ out = << >>
  /\ saved = {}
  /\ saveErr = FALSE
  /\ anchor = 0
  /\ hist = << >>
  /\ origFwd = << >>
  /\ cache = CacheInit

\* The topic, the store and the users cache after construction.
InitServer == InitCall /\ cat = TopicCatP2P /\ acct = AcctInit

Init == InitCall /\ acct = AcctInit /\ calc = NoCalc

Next ==
  \/ HandleCallInvite
  \/ HandleCallEvent
  \/ CallEstablishmentTimeout
  \/ ServerTerminate
  \/ Publish
  \/ SetInactive

Spec == Init /\ [][Next]_vars

\* The topic with its timer: an establishment timer which is running fires,
\* and the topic handles it, unless the timer is stopped before.
SpecTimer == Init /\ [][Next]_vars /\ WF_vars(CallEstablishmentTimeout)

\* The account handlers alone, beside an idle P2P topic, under each configuration.
InitAcct ==
  /\ InitCall
  /\ cat = TopicCatP2P
  /\ calc = NoCalc
  /\ acct \in {[AcctInit EXCEPT !.required = r] : r \in RequiredSets}

NextAcct == ReplyCreateUser

SpecAcct == InitAcct /\ [][NextAcct]_vars

\* Update and deletion of accounts: the users 1 and 2 have been created, user 1
\* with a validated email, user 2 with an email which is not validated yet.
InitUpd ==
  /\ InitCall
  /\ cat = TopicCatP2P
  /\ calc = NoCalc
  /\ acct = [AcctInit EXCEPT
              !.users = {[uid |-> 1, tags |-> <<Tag("email", "a@x")>>, deleted |-> FALSE,
                          access |-> [auth |-> ModeCP2P, anon |-> ModeNone]],
                         [uid |-> 2, tags |-> << >>, deleted |-> FALSE,
                          access |-> [auth |-> ModeCP2P, anon |-> ModeNone]]},
              !.authRecs = {[uid |-> 1, scheme |-> "basic", secret |-> "alice:pw"],
                            [uid |-> 2, scheme |-> "basic", secret |-> "bob:pw"]},
              !.creds = {[uid |-> 1, method |-> "email", value |-> "a@x", done |-> TRUE],
                         [uid |-> 2, method |-> "email", value |-> "b@x", done |-> FALSE]},
              !.lastUid = 2]

NextUpd ==
  \/ ReplyUpdateUser
  \/ ReplyDelUser

SpecUpd == InitUpd /\ [][NextUpd]_vars

\* The credentials of two accounts: user 1 has none, one or two validated
\* e-mail credentials and may have a validated phone number, user 2 has an
\* e-mail credential that is not validated.
CredStores ==
  {e \cup p \cup {[uid |-> 2, method |-> "email", value |-> "b@x", done |-> FALSE]} :
     e \in SUBSET {[uid |-> 1, method |-> "email", value |-> v, done |-> TRUE] :
                     v \in {"a@x", "a2@x"}},
     p \in SUBSET {[uid |-> 1, method |-> "tel", value |-> "+1", done |-> TRUE]}}

InitCred ==
  /\ InitCall
  /\ cat = TopicCatP2P
  /\ calc = NoCalc
  /\ \E c \in CredStores, r \in RequiredSets :
       acct = [AcctInit EXCEPT
                 !.users = {[uid |-> 1, tags |-> << >>, deleted |-> FALSE,
                          access |-> [auth |-> ModeCP2P, anon |-> ModeNone]],
                            [uid |-> 2, tags |-> << >>, deleted |-> FALSE,
                          access |-> [auth |-> ModeCP2P, anon |-> ModeNone]]},
                 !.authRecs = {[uid |-> 1, scheme |-> "basic", secret |-> "alice:pw"],
                               [uid |-> 2, scheme |-> "basic", secret |-> "bob:pw"]},
                 !.creds = c, !.required = r, !.lastUid = 2]

NextCred == DeleteCred

SpecCred == InitCred /\ [][NextCred]_vars

\* The tel validator alone: user 1 has a phone number which is not validated
\* yet, user 2 has no credential.
InitTel ==
  /\ InitCall
  /\ cat = TopicCatP2P
  /\ calc = NoCalc
  /\ acct = [AcctInit EXCEPT
               !.creds = {[uid |-> 1, method |-> validatorName, value |-> "+1",
                           done |-> FALSE, resp |-> StoredResponse, retries |-> 0]},
               !.lastUid = 2]

NextTel == TelCheck

SpecTel == InitTel /\ [][NextTel]_vars

\* Access modes: a mode of 8 bits is converted to text and back, a text is
\* read, or the delta to a second mode is taken.
InitMode ==
  /\ InitServer
  /\ calc \in {ModeCalc("", m, ModeNone, << >>, FALSE, ModeNone) : m \in Modes8}

NextMode ==
  \/ MarshalUnmarshal
  \/ ParseMode
  \/ ModeDelta

SpecMode == InitMode /\ [][NextMode]_vars

\* User ids: an id is converted to one of its forms and read back, a text is
\* read, or the p2p name with a second id is made and read back.
InitUid ==
  /\ InitServer
  /\ calc \in {UidCalc("", uid, ZeroUid64, << >>, << >>, FALSE, ZeroUid64, ZeroUid64) :
                uid \in UidInputs}

NextUid ==
  \/ UidBinary
  \/ UidText
  \/ UidJSON
  \/ UidUser
  \/ UidTextRead
  \/ UidP2P

SpecUid == InitUid /\ [][NextUid]_vars

\* The users cache: the topics register their users and send updates, the
\* updater processes them.
InitCache == InitServer /\ calc = NoCalc

NextCache ==
  \/ UsersRegisterTopic
  \/ UsersUpdateUnread
  \/ UsersPush
  \/ UserUpdater

SpecCache == InitCache /\ [][NextCache]_vars

\* The users cache with its shutdown.  The updater is a goroutine of its
\* own (go userUpdater()): it takes an update whenever the channel holds one.
InitShutdown == InitCache

NextShutdown == NextCache \/ UsersShutdown

SpecShutdown == InitShutdown /\ [][NextShutdown]_vars /\ WF_vars(UserUpdater)

(***************************************************************************)
(* Properties of the video call state machine.                             *)
(***************************************************************************)
\* The step handles a {note what=call}, a call invite, ...
IsNote(e) == e.op = "note"
IsInvite(e) == e.op = "pub"
IsServerEnd(e) == e.op \in {"timeout", "terminate"}

MetaEvents == {constCallEventOffer, constCallEventAnswer, constCallEventIceCandidate}

\* The note e refers to the current call of an active topic and comes from a subscriber.
Addressed(e) ==
  /\ currentCall.live
  /\ ~inactive
  /\ e.SeqId = currentCall.seq
  /\ ParseUserId(e.AsUser) \in perUser

\* The note e comes from the callee: not the originator's session, not the originator's uid.
FromCallee(e) ==
  /\ e.sess # getCallOriginator(currentCall).sess
  /\ ParseUserId(e.AsUser) # getCallOriginator(currentCall).uid

\* The messages of a sequence which satisfy P, as a set of positions.
Queued(o) == {i \in DOMAIN o : o[i].ch = "sess" /\ o[i].what = "call"}

\* The {info} forward of event ev of call `call` from user `from` to session s.
ForwardTo(s, call, ev, from, pl) ==
  [BlankMsg EXCEPT !.ch = "sess", !.toSess = s, !.what = "call", !.event = ev,
                   !.seq = call.seq, !.from = from, !.payload = pl]

\* C1: the establishment timer never runs without a call, and after a processed
\* hang-up, a server-initiated termination or an establishment timeout there is
\* no current call and the timer is stopped.
C1_CallCleared ==
  /\ [](timerArmed => currentCall.live)
  /\ [][ ( \/ IsServerEnd(evt')
           \/ IsNote(evt') /\ evt'.event = constCallEventHangUp /\ Addressed(evt') )
         => (~currentCall'.live /\ ~timerArmed') ]_vars

C1_Witness ==
  /\ IsNote(evt)
  /\ evt.event = constCallEventHangUp
  /\ Len(out) > 0
  /\ ~currentCall.live
  /\ ~timerArmed

\* C2: an invite while a call is live gets call-busy, an invite on a topic which
\* is not P2P gets permission-denied; both leave the call and the timer alone
\* and send no invite notification.  A call is created only on a P2P topic
\* without a live call.
C2_InviteRejected ==
  [][ IsInvite(evt') =>
        /\ currentCall.live =>
             /\ out' = <<ErrReply(evt'.sess, "call-busy")>>
             /\ currentCall' = currentCall
             /\ timerArmed' = timerArmed
        /\ (~currentCall.live /\ cat # TopicCatP2P) =>
             /\ out' = <<ErrReply(evt'.sess, "permission-denied")>>
             /\ currentCall' = currentCall
             /\ timerArmed' = timerArmed
        /\ currentCall' # currentCall => (cat = TopicCatP2P /\ ~currentCall.live) ]_vars

C2_Witness ==
  /\ IsInvite(evt)
  /\ currentCall.live
  /\ evt.sess # getCallOriginator(currentCall).sess
  /\ out = <<ErrReply(evt.sess, "call-busy")>>

\* C3: a ringing, accept, offer, answer or ice-candidate event is queued to at
\* most one session, which is never the sender's; it is not broadcast to the
\* topic, and the offline notification skips the sender's session.
C3_NoEcho ==
  (IsNote(evt) /\ evt.event \in MetaEvents \cup {constCallEventRinging, constCallEventAccept})
  => /\ Cardinality(Queued(out)) <= 1
     /\ \A i \in DOMAIN out :
          out[i].what = "call" =>
            \/ out[i].ch = "sess" /\ out[i].toSess \in Sessions \ {evt.sess}
            \/ out[i].ch = "offline" /\ out[i].skip = evt.sess

C3_Witness ==
  /\ IsNote(evt)
  /\ evt.event = constCallEventAnswer
  /\ Cardinality(currentCall.parties) = 2
  /\ Cardinality(Queued(out)) = 1

\* C4: offer, answer and ice-candidate are forwarded only when the call has both parties.
C4_MetaOnlyEstablished ==
  (IsNote(evt) /\ evt.event \in MetaEvents /\ Queued(out) # {})
  => Cardinality(currentCall.parties) = 2

\* C5: ringing or accept from the callee on a call with one party is forwarded
\* to the originator's session; ringing changes neither the parties nor the
\* timer; accept, once the `accepted` message is persisted, adds the callee
\* (two parties) and stops the timer.  After invite, ringing, accept the
\* originator was sent exactly ringing, then accept.
C5_RingingAccept ==
  /\ [][ ( /\ IsNote(evt')
           /\ evt'.event \in {constCallEventRinging, constCallEventAccept}
           /\ Addressed(evt')
           /\ FromCallee(evt')
           /\ Cardinality(currentCall.parties) = 1 )
         => LET fwd == ForwardTo(getCallOriginator(currentCall).sess, currentCall,
                                 evt'.event, evt'.AsUser, NoPayload)
            IN /\ evt'.event = constCallEventRinging =>
                    /\ out' = <<fwd>>
                    /\ currentCall' = currentCall
                    /\ timerArmed' = timerArmed
               /\ (evt'.event = constCallEventAccept /\ saved' # {}) =>
                    /\ \E i \in DOMAIN out' : out'[i] = fwd
                    /\ Cardinality(Queued(out')) = 1
                    /\ Cardinality(currentCall'.parties) = 2
                    /\ \E q \in currentCall'.parties :
                         q.sess = evt'.sess /\ q.uid = ParseUserId(evt'.AsUser)
                           /\ ~q.isOriginator
                    /\ ~timerArmed' ]_vars
  /\ [](hist = Scenario => origFwd = Scenario)

C5_Witness ==
  /\ hist = Scenario
  /\ origFwd = <<constCallEventRinging, constCallEventAccept>>
  /\ Cardinality(currentCall.parties) = 2
  /\ ~timerArmed
  /\ evt.event = constCallEventAccept

\* The hang-up {info} of call `call` went to the topic and, offline, to every subscriber.
HangUpSent(o, call, from) ==
  /\ \E i \in DOMAIN o :
       o[i] = [BlankMsg EXCEPT !.ch = "topic", !.what = "call",
                               !.event = constCallEventHangUp, !.seq = call.seq]
  /\ \A u \in perUser :
       \E i \in DOMAIN o :
         o[i] = [BlankMsg EXCEPT !.ch = "offline", !.toUid = u, !.what = "call",
                                 !.event = constCallEventHangUp, !.seq = call.seq,
                                 !.from = from, !.final = TRUE]

\* The replacement message `content` of call `call` is among the stored messages s.
Written(s, call, content) ==
  \E m \in s :
    /\ m.content = content
    /\ m.head.mime = constTinodeVideoCallMimeType
    /\ m.head.replace = <<":">> \o Itoa(call.seq)
    /\ m.from = getCallOriginator(call).uid

\* C6 as stated: when the establishment timer fires on an inviting call, a
\* `disconnected` replacement message with the call's seq is written, the
\* hang-up is sent to the topic and to every subscriber, and the call is cleared.
C6_TimeoutWritesDisconnected ==
  [][ (evt'.op = "timeout" /\ currentCall.live)
      => /\ Written(saved', currentCall, constCallMsgDisconnected)
         /\ HangUpSent(out', currentCall, << >>)
         /\ currentCall' = NoCall ]_vars

\* C6, amended: the `disconnected` message is written unless the store rejects
\* it; the hang-up is sent and the call is cleared in both cases.
C6_Timeout ==
  [][ (evt'.op = "timeout" /\ currentCall.live)
      => /\ Cardinality(currentCall.parties) = 1
         /\ saveErr' \/ Written(saved', currentCall, constCallMsgDisconnected)
         /\ saveErr' => saved' = {}
         /\ \A m \in saved' : m.content = constCallMsgDisconnected
         /\ HangUpSent(out', currentCall, << >>)
         /\ currentCall' = NoCall
         /\ ~timerArmed' ]_vars

C6_Witness ==
  /\ evt.op = "timeout"
  /\ \E m \in saved : m.content = constCallMsgDisconnected /\ m.seq = lastID
  /\ ~currentCall.live
  /\ Len(out) > 0

\* The step ends a live call by a hang-up, from a client or from the server.
EndsCall ==
  /\ currentCall.live
  /\ \/ IsServerEnd(evt')
     \/ IsNote(evt') /\ evt'.event = constCallEventHangUp /\ Addressed(evt')

\* C7 as stated: the replacement message of an ended call is `finished` when the
\* call has two parties and `disconnected` otherwise.
C7_FinishedIffTwoParties ==
  [][ EndsCall =>
        \A m \in saved' :
          m.content = IF Cardinality(currentCall.parties) = 2
                      THEN constCallMsgFinished
                      ELSE constCallMsgDisconnected ]_vars

\* C7, amended: `finished` when a client hangs up a call with two parties,
\* `disconnected` otherwise: for a call with one party and for every hang-up the
\* server makes up.
C7_EndMessage ==
  [][ EndsCall =>
        \A m \in saved' :
          m.content = IF IsNote(evt') /\ Cardinality(currentCall.parties) = 2
                      THEN constCallMsgFinished
                      ELSE constCallMsgDisconnected ]_vars

C7_Witness ==
  /\ IsNote(evt)
  /\ evt.event = constCallEventHangUp
  /\ \E m \in saved : m.content = constCallMsgFinished
  /\ ~currentCall.live

\* Messages which stand for a call state.
CallStateMsgs == {constCallMsgAccepted, constCallMsgFinished, constCallMsgDisconnected}

\* C8: a stored call state message has the video call mime type and
\* head.replace = ":<seq>", seq being the id of the message which started the call.
C8_ReplaceHead ==
  \A m \in saved :
    m.content \in CallStateMsgs =>
      /\ m.head.mime = constTinodeVideoCallMimeType
      /\ Len(m.head.replace) >= 2
      /\ Head(m.head.replace) = ":"
      /\ Atoi(Tail(m.head.replace)) = anchor

C8_Witness ==
  /\ \E m \in saved : m.content = constCallMsgFinished /\ m.seq > anchor + 1
  /\ anchor >= 10

\* The note e is one the topic ignores.
Ignored(e) ==
  \/ ~currentCall.live
  \/ inactive
  \/ e.SeqId # currentCall.seq
  \/ ParseUserId(e.AsUser) \notin perUser
  \/ /\ e.event \in {constCallEventRinging, constCallEventAccept}
     /\ \/ e.sess = getCallOriginator(currentCall).sess
        \/ ParseUserId(e.AsUser) = getCallOriginator(currentCall).uid
        \/ Cardinality(currentCall.parties) # 1

\* C9: an ignored call event gets no reply, is not forwarded, writes nothing and
\* leaves the call, its parties and the timer as they were.
C9_Dropped ==
  [][ (IsNote(evt') /\ Ignored(evt'))
      => /\ out' = << >>
         /\ saved' = {}
         /\ ~saveErr'
         /\ currentCall' = currentCall
         /\ timerArmed' = timerArmed
         /\ lastID' = lastID ]_vars

C9_Witness ==
  /\ IsNote(evt)
  /\ evt.event = constCallEventAccept
  /\ currentCall.live
  /\ evt.SeqId = currentCall.seq
  /\ ~inactive
  /\ evt.sess # getCallOriginator(currentCall).sess
  /\ ParseUserId(evt.AsUser) = getCallOriginator(currentCall).uid
  /\ Cardinality(currentCall.parties) = 1
  /\ timerArmed
  /\ out = << >>
  /\ ~saveErr

(***************************************************************************)
(* Properties of the account handlers.                                     *)
(***************************************************************************)
\* C10: when account creation fails after the user row was written, no row of
\* that account is left in the store.
C10_NoRowAfterFailure ==
  (acct.res.persisted /\ acct.res.code # "created")
  => \A u \in acct.users : u.uid # acct.res.uid

\* The tags of the credentials validated at once: the response was given and
\* the validator adds its credentials to the tags.
ValidatedTags(creds) ==
  {Tag(creds[i].method, creds[i].value) :
     i \in {j \in DOMAIN creds : creds[j].response # "" /\ addToTags(creds[j].method)}}

\* The requests the handler has answered with success.
Created == acct.res.code = "created"

\* C11: after a successful creation the user row and an authentication record
\* are in the store, and the row's tags hold method:value of every credential
\* validated at once whose validator adds tags.
C11_CreatedAccount ==
  Created =>
    /\ \E u \in acct.users :
         /\ u.uid = acct.res.uid
         /\ ~u.deleted
         /\ ValidatedTags(normalizeCredentials(acct.req.cred)) \subseteq Range(u.tags)
    /\ \E r \in acct.authRecs : r.uid = acct.res.uid

C11_Witness ==
  /\ Created
  /\ \E i \in DOMAIN acct.req.cred : acct.req.cred[i].response # ""
  /\ \E u \in acct.users : u.uid = acct.res.uid /\ Tag("email", "a@x") \in Range(u.tags)

\* C12: when a method required for the account's level is not among the
\* credentials supplied, the request is answered with Policy, the reply lists
\* the required methods which were not supplied, and the user row is removed.
C12_MissingCredentialRejected ==
  LET supplied == Range(credentialMethods(normalizeCredentials(acct.req.cred)))
      required == Range(acct.required)
  IN (/\ acct.res.persisted
      /\ \E r \in acct.authRecs : r.uid = acct.res.uid
      /\ ~(required \subseteq supplied))
     => /\ acct.res.code = "policy"
        /\ Range(acct.res.missing) = required \ supplied
        /\ \A u \in acct.users : u.uid # acct.res.uid

\* The reason for which a request is turned down before the user row is
\* written, "" when there is none.
EarlyRejection(store, s, msg) ==
  IF msg.login /\ (s.uid # ZeroUid \/ s.rec # ZeroUid) THEN "already-authenticated"
  ELSE IF msg.scheme \notin AuthHandlers THEN "malformed"
  ELSE IF \E r \in store.authRecs : r.secret = msg.secret THEN "duplicate"
  ELSE IF \E i \in DOMAIN msg.tags : msg.tags[i].ns \in immutableTagNS THEN "permission-denied"
  ELSE IF \E cr \in Range(normalizeCredentials(msg.cred)) : ~PreCheck(cr) THEN "malformed"
  ELSE ""

\* The handler left the store as it was.
StoreUnchanged ==
  /\ acct'.users = acct.users
  /\ acct'.authRecs = acct.authRecs
  /\ acct'.creds = acct.creds
  /\ acct'.lastUid = acct.lastUid

\* C13: a request turned down before the user row is written (unknown scheme,
\* secret in use, restricted tag, failed PreCheck) gets the error of its reason
\* and leaves the store as it was; a second creation with a secret in use is
\* answered with Duplicate.
C13_RejectedWritesNothing ==
  [][EarlyRejection(acct, acct'.sess, acct'.req) # ""
       => /\ acct'.res.code = EarlyRejection(acct, acct'.sess, acct'.req)
          /\ ~acct'.res.persisted
          /\ StoreUnchanged]_vars

C13_Witness ==
  /\ acct.res.code = "duplicate"
  /\ \E r \in acct.authRecs : r.secret = acct.req.secret
  /\ \E u \in acct.users : ~u.deleted

\* C14 as stated: a request from a session which is logged in and not root is
\* turned down and writes nothing; a root session is not turned down for being
\* logged in.
C14_CreateOnlyUnauthenticated ==
  (acct.res.code # "none")
    => /\ (acct.sess.uid # ZeroUid /\ acct.sess.authLvl # "root")
            => (acct.res.code = "already-authenticated" /\ ~acct.res.persisted)
       /\ (acct.sess.authLvl = "root") => acct.res.code # "already-authenticated"

\* C14 amended: a request is turned down with AlreadyAuthenticated exactly when
\* it asks to log in with the new account and the session is logged in or
\* brought a token, whatever the session's level; it then writes nothing.
C14_LoginWhileAuthenticated ==
  [][LET rejected == acct'.req.login /\ (acct'.sess.uid # ZeroUid \/ acct'.sess.rec # ZeroUid)
     IN /\ (acct'.res.code = "already-authenticated") <=> rejected
        /\ rejected => (StoreUnchanged /\ ~acct'.res.persisted)]_vars

C14_Witness ==
  /\ acct.res.code = "already-authenticated"
  /\ acct.sess.authLvl = "root"
  /\ acct.req.login

\* C15: after a successful creation the row's tags are the tags the
\* authenticator returned together with the tags of the credentials validated
\* at once, also when the authenticator returned no tags.
C15_ReturnedTagsPersisted ==
  Created =>
    \E u \in acct.users :
      /\ u.uid = acct.res.uid
      /\ Range(u.tags) = Range(acct.recTags)
                           \cup ValidatedTags(normalizeCredentials(acct.req.cred))

(***************************************************************************)
(* Properties of account update and deletion.                              *)
(***************************************************************************)
\* The last request was an update, a deletion.
Updated == acct.nreq > 0 /\ acct.req.kind = "upd"
Deleted == acct.nreq > 0 /\ acct.req.kind = "del"

\* The operations of the steps of the last request, in order.
StepOps == [i \in DOMAIN acct.steps |-> acct.steps[i].op]

\* C16: replyUpdateUser replies with success only if the branch it selected
\* succeeded; when the branch returned an error the client gets that error and
\* the plugin hook is not called; a request with neither scheme nor
\* credentials gets Malformed.
C16_SuccessOnlyIfBranchSucceeded ==
  Updated =>
    /\ (acct.res.code = "ok" => acct.branch = "")
    /\ (acct.branch \notin {"", "panic"}
         => acct.res.code = acct.branch /\ "plugin" \notin Range(StepOps))

\* An authenticated session which is not root names another user.
NamesAnother(s, msg) ==
  /\ s.uid # ZeroUid
  /\ s.authLvl # "root"
  /\ msg.user # << >>
  /\ msg.user # UserId(s.uid)

\* The request did nothing but reply with code.
OnlyReplied(code) ==
  /\ acct'.res.code = code
  /\ acct'.steps = <<Step("reply", code)>>
  /\ StoreUnchanged
  /\ acct'.live = acct.live

\* C17 as stated: a request to update or delete another user's account from an
\* authenticated session which is not root gets PermissionDenied, writes
\* nothing, changes no authentication record, evicts no session and
\* unregisters no topic.
C17_OnlyRootActsOnOthers ==
  [][(acct'.nreq > acct.nreq /\ NamesAnother(acct'.sess, acct'.req))
       => OnlyReplied("permission-denied")]_vars

\* C17 amended: such a request gets PermissionDenied, or Malformed when it is an
\* update which carries a token as well; in both cases it does nothing else.
C17_NonRootRejected ==
  [][(acct'.nreq > acct.nreq /\ NamesAnother(acct'.sess, acct'.req))
       => IF acct'.req.kind = "upd" /\ acct'.sess.rec # ZeroUid
          THEN OnlyReplied("malformed")
          ELSE OnlyReplied("permission-denied")]_vars

C17_Witness ==
  /\ Deleted
  /\ NamesAnother(acct.sess, acct.req)
  /\ acct.res.code = "permission-denied"
  /\ \E u \in acct.users : UserId(u.uid) = acct.req.user /\ ~u.deleted

\* The steps of an authorized deletion, with or without the presence fan-out
\* (left out when the subscriptions cannot be read) and the final eviction.
DeleteSteps(pres, stop) ==
  [i \in DOMAIN AuthNames |-> "DelRecords"]
  \o <<"EvictUser", "unreg", "done">>
  \o (IF pres THEN <<"pres">> ELSE << >>)
  \o <<"Users.Delete", "reply">>
  \o (IF stop THEN <<"stop">> ELSE << >>)

\* C18: an authorized deletion calls DelRecords of every authenticator, evicts
\* the sessions of the user but the requesting one, unregisters the topics and
\* waits for the hub, fans out presence, deletes the user, queues the reply and
\* only then, if the requester is the deleted user, evicts the requester.
C18_DeleteOrder ==
  (Deleted /\ acct.res.code \in {"ok", "internal"})
    => /\ \E pres \in BOOLEAN :
            StepOps = DeleteSteps(pres, acct.sess.uid = acct.res.uid)
       /\ \A i \in DOMAIN AuthNames : acct.steps[i].arg = AuthNames[i]
       /\ LET evict == acct.steps[Len(AuthNames) + 1] IN
            /\ acct.sess.sid \notin evict.arg
            /\ \A sid \in evict.arg : SidUid(sid) = acct.res.uid
            /\ \A sid \in acct.live : SidUid(sid) # acct.res.uid
       /\ (acct.sess.uid # acct.res.uid) => acct.sess.sid \in acct.live

C18_Witness ==
  /\ Deleted
  /\ acct.res.code = "ok"
  /\ acct.sess.uid = acct.res.uid
  /\ acct.steps[Len(AuthNames) + 1].arg # {}
  /\ "pres" \in Range(StepOps)
  /\ acct.steps[Len(acct.steps)] = Step("stop", acct.sess.sid)

(***************************************************************************)
(* Properties of the users cache.                                          *)
(***************************************************************************)
\* C19: after every update the updater has processed, a user has an entry
\* in usersCache if and only if the registrations the updater has processed
\* for the user exceed the un-registrations; the topic count of an entry is
\* that difference, and no entry has a topic count of zero or less.
C19_EntryIffTopics ==
  \A uid \in CacheUids :
    LET uce == cache.usersCache[uid]
        count == cache.regs[uid] - cache.unregs[uid]
    IN /\ uce.ok <=> count > 0
       /\ uce.ok => uce.topics = count /\ uce.topics > 0

\* One user is registered with two topics, the other was registered and was
\* removed from the cache when its only topic was un-registered.
C19_Witness ==
  /\ cache.running = "running"
  /\ cache.usersCache[1].ok /\ cache.usersCache[1].topics = 2
  /\ cache.regs[1] = 2 /\ cache.unregs[1] = 0
  /\ cache.regs[2] = 1 /\ cache.unregs[2] = 1
  /\ ~cache.usersCache[2].ok

\* The updater takes an unread update (usersUpdateUnread) of a cached user
\* from the channel.
UnreadProcessed ==
  /\ cache.running = "running"
  /\ cache.usersUpdate # << >>
  /\ cache'.usersUpdate = Tail(cache.usersUpdate)
  /\ Head(cache.usersUpdate).pushRcpt = {}
  /\ Head(cache.usersUpdate).uidList = << >>
  /\ cache.usersCache[Head(cache.usersUpdate).uid].ok

\* The count val applied to the count unread: absolute sets, delta adds.
Applied(unread, upd) == IF upd.inc THEN unread + upd.unread ELSE upd.unread

\* C20: an absolute update leaves the cached count equal to its value and a
\* delta update leaves it equal to the previous count plus its value; when
\* the cached count is -1 the count is loaded first and the update is
\* applied to the loaded count.
C20_UpdateAppliedAfterLoad ==
  [][UnreadProcessed =>
       LET upd == Head(cache.usersUpdate)
           old == cache.usersCache[upd.uid].unread
           new == cache'.usersCache[upd.uid].unread
           ld == cache'.loaded[upd.uid]
       IN IF old = NotLoaded
          THEN ld.done /\ (~ld.err => new = Applied(ld.count, upd))
          ELSE new = Applied(old, upd)]_vars

\* C20 (amended): as C20, but when the cached count is -1 the loaded count
\* becomes the cached count and the value of the update is not applied; when
\* loading fails the entry is left as it was.
C20_LoadedCountReplaces ==
  [][UnreadProcessed =>
       LET upd == Head(cache.usersUpdate)
           old == cache.usersCache[upd.uid].unread
           new == cache'.usersCache[upd.uid].unread
           ld == cache'.loaded[upd.uid]
       IN /\ cache'.usersCache[upd.uid].topics = cache.usersCache[upd.uid].topics
          /\ IF old = NotLoaded
             THEN ld.done /\ new = (IF ld.err THEN old ELSE ld.count)
             ELSE ~ld.done /\ new = Applied(old, upd)]_vars

\* The one unread update sent for user 1 found the count not loaded; the
\* count 2 was loaded and is the cached count, whatever the update carried.
C20_Witness ==
  /\ cache.running = "running"
  /\ ~cache.pushed.sent
  /\ cache.usersUpdate = << >>
  /\ cache.ncalls = 2
  /\ cache.regs[1] = 1 /\ cache.unregs[1] = 0
  /\ cache.loaded[1] = Loaded(DbResult(FALSE, 2))
  /\ cache.usersCache[1].unread = 2

\* The updater takes a push receipt (usersPush) from the channel.
PushProcessed ==
  /\ cache.running = "running"
  /\ cache.usersUpdate # << >>
  /\ cache'.usersUpdate = Tail(cache.usersUpdate)
  /\ Head(cache.usersUpdate).pushRcpt # {}

\* The entry of the receipt for the user uid carries the count unread.
RcptUnread(uid, unread) == [uid |-> uid, unread |-> unread]

\* C21: for each push receipt the cached count of every user of the receipt
\* grows by exactly 1, the entry of the user in the receipt carries the new
\* count, and the receipt is handed to push.Push.
C21_PushAddsOne ==
  [][PushProcessed =>
       /\ cache'.pushed.sent
       /\ \A uid \in Head(cache.usersUpdate).pushRcpt :
            /\ cache'.usersCache[uid].unread = cache.usersCache[uid].unread + 1
            /\ RcptUnread(uid, cache'.usersCache[uid].unread) \in cache'.pushed.to]_vars

\* C21 (amended): when every user of the receipt is cached the receipt is
\* handed to push.Push once; a user whose cached count is not negative gets
\* the count grown by 1 and written into the receipt; a user whose count is
\* -1 gets the loaded count as cached count and in the receipt, and is left
\* as it was, with no count in the receipt, when loading fails.  When a user
\* of the receipt is not cached the updater panics and hands over nothing.
C21_PushEnriches ==
  [][PushProcessed =>
       LET to == Head(cache.usersUpdate).pushRcpt IN
       IF \E uid \in to : ~cache.usersCache[uid].ok
       THEN cache'.running = "panic" /\ ~cache'.pushed.sent
       ELSE /\ cache'.running = "running"
            /\ cache'.pushed.sent
            /\ {e.uid : e \in cache'.pushed.to} \subseteq to
            /\ \A uid \in to :
                 LET old == cache.usersCache[uid]
                     new == cache'.usersCache[uid]
                     ld == cache'.loaded[uid]
                     noted == {e \in cache'.pushed.to : e.uid = uid}
                 IN /\ new.topics = old.topics
                    /\ IF old.unread >= 0
                       THEN /\ new.unread = old.unread + 1
                            /\ noted = {RcptUnread(uid, new.unread)}
                       ELSE /\ ld.done
                            /\ IF ld.err
                               THEN new = old /\ noted = {}
                               ELSE /\ new.unread = ld.count
                                    /\ noted = {RcptUnread(uid, ld.count)}]_vars

\* A receipt for both users was handed over with both counts: the count of
\* user 1 was loaded for it, the count of user 2 was cached and grew by 1.
C21_Witness ==
  /\ cache.running = "running"
  /\ cache.pushed.sent
  /\ {e.uid : e \in cache.pushed.to} = {1, 2}
  /\ cache.loaded[1] = Loaded(DbResult(FALSE, 2))
  /\ ~cache.loaded[2].done

\* C22: after usersShutdown is called the updater eventually leaves its
\* receive loop.
C22_ShutdownStopsUpdater == cache.shutdown ~> cache.running # "running"

\* The last step was a call of usersUpdateUnread, usersPush or
\* usersRegisterTopic.
UserCalled == cache'.ncalls = cache.ncalls + 1

\* The update channel is full.
QueueFull == Len(cache.usersUpdate) = QueueCap

NothingToSend(call) ==
  \/ call.fn = "usersUpdateUnread" /\ call.upd.inc /\ call.upd.unread = 0
  \/ call.fn = "usersRegisterTopic" /\ call.upd.uidList = << >>

CredsUpdated ==
  /\ Updated
  /\ acct.req.scheme = "" /\ Len(acct.req.cred) > 0
  /\ acct.res.code \in {"ok", "panic"}
  /\ acct.branch # "unsupported"

\* The methods of which the user uid has a validated credential.
ValidatedMethods(uid) == {c.method : c \in GetAllCreds(acct.creds, uid)}

\* C30: updateCreds, called with validators required for the level and with a
\* credential, completes without a panic; what it returns are the methods of
\* which the user then has a validated credential (so that the reply names
\* the other required methods), and a wrong response is not an error.
C30_UpdateCredsCompletes ==
  CredsUpdated =>
    /\ acct.res.code # "panic"
    /\ acct.branch # "credentials"
    /\ acct.branch = "" =>
         Range(acct.res.missing) = Range(acct.required) \ ValidatedMethods(acct.res.uid)

\* deleteCred has been called for a credential of a registered validator.
CredDeleted ==
  /\ acct'.nreq = acct.nreq + 1
  /\ acct'.req.kind = "delcred"
  /\ acct'.req.cred.method \in Validators

\* C24: deleteCred does not remove the last validated credential of a method
\* required for the level: with fewer than two validated credentials of a
\* required method it returns Policy and leaves the credentials as they are;
\* otherwise it removes the credential named by the method and the value of
\* its input, and nothing else.  A failure of the store changes nothing.
C24_LastRequiredCredentialKept ==
  [][CredDeleted =>
       LET rq == acct'.req
           required == rq.authLvl = "auth" /\ rq.cred.method \in Range(acct.required)
           count == Cardinality({c \in acct.creds :
                                   c.uid = rq.uid /\ c.method = rq.cred.method /\ c.done})
       IN \/ acct'.res.code = "internal" /\ acct'.creds = acct.creds
          \/ IF required /\ count < 2
             THEN acct'.res.code = "policy" /\ acct'.creds = acct.creds
             ELSE /\ acct'.res.code = "ok"
                  /\ acct'.creds =
                       {c \in acct.creds : ~(c.uid = rq.uid /\ c.method = rq.cred.method
                                             /\ c.value = rq.cred.value)}]_vars

(***************************************************************************)
(* Properties of the access modes.                                         *)
(***************************************************************************)
\* C25: reading the text of a mode m of 8 bits gives m again, with no bit
\* beyond the 8 bits set.
C25_ModeTextRoundTrip ==
  calc.fn = "MarshalText" => ~calc.err /\ calc.out = calc.m /\ calc.out \in Modes8

\* The letters of the access modes in canonical order, and the letters of a
\* set of bits (numbered from 1) in that order.
Canonical == <<"J", "R", "W", "P", "A", "S", "D", "O">>
LettersOf(bits) ==
  [i \in 1 .. Cardinality(bits) |->
     Canonical[CHOOSE b \in bits : Cardinality({c \in bits : c < b}) = i - 1]]

\* The bits (numbered from 1) set in n and not in m.
BitsGained(m, n) == {i \in DOMAIN Canonical : Bit(n, i - 1) = 1 /\ Bit(m, i - 1) = 0}

\* The bit of a letter of Canonical.
LetterBit(ch) == 2 ^ ((CHOOSE i \in DOMAIN Canonical : Canonical[i] = ch) - 1)

\* The delta text applied to the mode m from the i-th character on: the
\* letters after + are set, the letters after - are cleared.
RECURSIVE ApplyDelta(_, _, _, _)
ApplyDelta(m, text, i, sign) ==
  IF i > Len(text) THEN m
  ELSE IF text[i] \in {"+", "-"} THEN ApplyDelta(m, text, i + 1, text[i])
  ELSE LET b == LetterBit(text[i])
           has == (m \div b) % 2 = 1
       IN ApplyDelta(IF sign = "+" THEN (IF has THEN m ELSE m + b)
                     ELSE (IF has THEN m - b ELSE m),
                     text, i + 1, sign)

\* C26: for modes m and n of 8 bits m.Delta(n) is + with the letters added
\* and - with the letters removed, in canonical order, a part without letters
\* left out; it is empty when m = n, and applied to m it gives n.
C26_DeltaText ==
  calc.fn = "Delta" =>
    LET added == BitsGained(calc.m, calc.n)
        removed == BitsGained(calc.n, calc.m)
    IN /\ calc.text = (IF added = {} THEN << >> ELSE <<"+">> \o LettersOf(added))
                      \o (IF removed = {} THEN << >> ELSE <<"-">> \o LettersOf(removed))
       /\ calc.m = calc.n => calc.text = << >>
       /\ ApplyDelta(calc.m, calc.text, 1, "+") = calc.n
       /\ calc.m = ModeJoin + ModeRead + ModeWrite + ModeShare =>
            /\ calc.n = ModeJoin + ModeRead + ModeWrite => calc.text = <<"-", "S">>
            /\ calc.n = ModeJoin + ModeRead + ModeWrite + ModePres =>
                 calc.text = <<"+", "P", "-", "S">>

\* The delta from JRWS to JRWP has been taken: a letter is added and a
\* letter is removed.
C26_Witness ==
  /\ calc.fn = "Delta"
  /\ calc.m = ModeJoin + ModeRead + ModeWrite + ModeShare
  /\ calc.n = ModeJoin + ModeRead + ModeWrite + ModePres
  /\ calc.text = <<"+", "P", "-", "S">>

\* The letters of a text, in upper case.
Upper(ch) ==
  CASE ch = "j" -> "J" [] ch = "r" -> "R" [] ch = "n" -> "N" [] OTHER -> ch
TextLetters(b) == {Upper(b[i]) : i \in DOMAIN b}

\* C27: reading an access mode does not depend on the case or on the order
\* of the letters: texts with the same letters give the same mode, and a text
\* with N gives the mode without any bit, wherever N stands.
C27_ParseIgnoresCaseAndOrder ==
  calc.fn = "UnmarshalText" /\ ~calc.err =>
    /\ \A b \in ModeTexts :
         TextLetters(b) = TextLetters(calc.text) =>
           UnmarshalText(calc.m, b) = ModeResult(FALSE, calc.out)
    /\ "N" \in TextLetters(calc.text) => calc.out = ModeNone

(***************************************************************************)
(* Properties of the user ids.                                             *)
(***************************************************************************)
\* Is the id a numerically smaller than the id b?  The words are compared
\* from the most significant on.
Smaller(a, b) ==
  \E i \in DOMAIN a : a[i] < b[i] /\ \A j \in 1 .. i - 1 : a[j] = b[j]

\* The p2p name of two ids that are not zero has been made and read back.
P2PNamed == calc.fn = "P2PName" /\ calc.uid # ZeroUid64 /\ calc.u2 # ZeroUid64

\* The name is the same both ways; read back without error it gives the
\* smaller id first and the other id second.
P2PNameReadBack ==
  /\ calc.text = calc.text2
  /\ ~calc.err
  /\ {calc.out, calc.out2} = {calc.uid, calc.u2}
  /\ calc.out = calc.out2 \/ Smaller(calc.out, calc.out2)

\* C28: for all ids a and b that are not zero, P2PName(a, b) = P2PName(b, a),
\* the 16 bytes of the name hold the numerically smaller id first, and
\* ParseP2P reads the name back, without error, as the pair of a and b.
C28_P2PNameCommutes == P2PNamed => P2PNameReadBack

\* C28 (amended): as C28 for ids a and b that differ; P2PName(a, a) is the
\* empty name both ways, which ParseP2P rejects.
C28_P2PNameOfDistinct ==
  P2PNamed =>
    IF calc.uid # calc.u2 THEN P2PNameReadBack
    ELSE calc.text = << >> /\ calc.text2 = << >> /\ calc.err

\* The name of 256 and 1 has been made: 1, whose first byte is the greater
\* one, is the first id of the name.
C28_Witness ==
  /\ P2PNamed
  /\ calc.uid = Uid64(0, 0, 0, 256) /\ calc.u2 = Uid64(0, 0, 0, 1)
  /\ Len(calc.text) = Len(p2pPrefix) + p2pBase64Unpadded
  /\ calc.out = calc.u2 /\ calc.out2 = calc.uid

\* An id has been converted to one of its forms and read back.
UidRoundTrips == {"MarshalBinary", "MarshalText", "MarshalJSON", "UserId"}

\* C29: for every Uid the binary form, the text, the JSON form and the user
\* id are read back without error as the same Uid, and a text whose length
\* is not 11 characters is rejected.
C29_UidRoundTrip ==
  /\ calc.fn \in UidRoundTrips => ~calc.err /\ calc.out = calc.uid
  /\ calc.fn = "UnmarshalText" /\ Len(calc.text) # uidBase64Unpadded => calc.err

\* C29 (amended): as C29 for every Uid that is not zero.  The zero Uid is
\* read back from its binary form and from its user id (the empty string);
\* its text is empty and its JSON form is the empty string in quotes, and
\* both are rejected.
C29_NonZeroUidRoundTrip ==
  /\ calc.fn \in UidRoundTrips =>
       IF calc.uid = ZeroUid64 /\ calc.fn \in {"MarshalText", "MarshalJSON"}
       THEN /\ calc.err
            /\ calc.text = IF calc.fn = "MarshalText" THEN << >>
                           ELSE <<QuoteChar, QuoteChar>>
       ELSE ~calc.err /\ calc.out = calc.uid
  /\ calc.fn = "MarshalText" /\ calc.uid # ZeroUid64 =>
       Len(calc.text) = uidBase64Unpadded
  /\ calc.fn = "UnmarshalText" /\ Len(calc.text) # uidBase64Unpadded => calc.err

\* The JSON form of the greatest Uid has been read back: 11 characters in
\* quotes.
C29_Witness ==
  /\ calc.fn = "MarshalJSON"
  /\ calc.uid = Uid64(MaxWord, MaxWord, MaxWord, MaxWord)
  /\ Len(calc.text) = uidBase64Unpadded + 2
  /\ ~calc.err /\ calc.out = calc.uid

(***************************************************************************)
(* Properties of the tags kept by updateCreds.                             *)
(***************************************************************************)
\* The credentials of the last request to which Check answered with the value
\* of a credential: the response was the right one and the credential of the
\* method is validated in the store.
CheckedCreds ==
  {c \in acct.creds :
     /\ c.uid = acct.res.uid /\ c.done
     /\ \E cr \in Range(normalizeCredentials(acct.req.cred)) :
          cr.method = c.method /\ cr.response = DebugResponse}

\* C31: after updateCreds in which Check returned the value of a credential of
\* a validator with addToTags, the tag method:value is among the tags of the
\* user (and the tag of a credential Check reports as removed is not).
C31_CheckedCredentialTagged ==
  CredsUpdated =>
    \A c \in CheckedCreds :
      addToTags(c.method) =>
        \E u \in acct.users : u.uid = c.uid /\ Tag(c.method, c.value) \in Range(u.tags)

(***************************************************************************)
(* Properties of the default access of a new account.                      *)
(***************************************************************************)
\* The letters of the bits of ModeCP2P, and the letters a mode is written with.
CP2PLetters == {"J", "R", "W", "P", "A"}
ModeLetterSet(m) == Range(String(m)) \ {"N"}

\* The rows written by the last request for a new account.
RowsWritten == {u \in acct.users : acct.res.persisted /\ u.uid = acct.res.uid}

\* C32: when the client gives a text of default access (auth or anon), the
\* mode saved with the account has the letters of JRWPA of the mode read from
\* the text, and A beside them when there is any: it is a subset of JRWPA and
\* either N or holds A.  For a text of valid letters without N the mode read
\* has the letters of the text.
C32_DefaultAccessClamped ==
  \A u \in RowsWritten, k \in {"auth", "anon"} :
    LET text == acct.req.defacs[k]
        parsed == UnmarshalText(getDefaultAccess(TopicCatP2P, k = "auth"), text)
        kept == {ch \in CP2PLetters : (parsed.m \div LetterBit(ch)) % 2 = 1}
        persisted == u.access[k]
    IN text # << >> =>
         /\ persisted \in 0 .. ModeCP2P
         /\ ModeLetterSet(persisted) = kept \cup (IF kept # {} THEN {"A"} ELSE {})
         /\ persisted = ModeNone \/ "A" \in ModeLetterSet(persisted)
         /\ (~parsed.err /\ "N" \notin TextLetters(text))
              => kept = TextLetters(text) \cap CP2PLetters

C32_Witness ==
  /\ Created
  /\ acct.req.defacs.auth = <<"r", "S">>
  /\ \E u \in RowsWritten : u.access.auth = ModeRead + ModeApprove

(***************************************************************************)
(* Properties of the tel validator.                                        *)
(***************************************************************************)
\* The store is the same but for one more failed check of the credential c.
OneMoreFailure(c) ==
  \E d \in acct'.creds :
    /\ d = [c EXCEPT !.retries = c.retries + 1]
    /\ acct'.creds \ {d} = acct.creds \ {c}

C34_RequestedCredentialStored ==
  Created =>
    \A cr \in Range(normalizeCredentials(acct.req.cred)) :
      cr.method = validatorName =>
        /\ \E c \in GetActiveCred(acct.creds, acct.res.uid, validatorName) :
             c.value = cr.value
        /\ cr.response # "" =>
             \E c \in GetAllCreds(acct.creds, acct.res.uid) :
               c.method = validatorName /\ c.value = cr.value


\* C36: when account creation fails after the user row was written, no
\* authentication record of that user is left in the store, and the secret of
\* the request is unique again for a later attempt.
C36_NoAuthRecordAfterCompensation ==
  (acct.res.persisted /\ acct.res.code # "created") =>
    /\ \A r \in acct.authRecs : r.uid # acct.res.uid
    /\ IsUnique(acct.req.secret)


(***************************************************************************)
(* Properties of the updater under a full channel.                         *)
(***************************************************************************)
\* C35: the callers register the topic of a user before they send an unread
\* update, a push receipt or an un-registration for that user; then the
\* updater never panics, in any interleaving, also when the channel is full
\* and updates are dropped.
C35_UpdaterNeverPanics == cache.running # "panic"


(***************************************************************************)
(* Properties of the parties of a call.                                    *)
(***************************************************************************)
\* The sessions which are parties of the call.
PartySessions(call) == {p.sess : p \in call.parties}

\* C37: offer, answer and ice-candidate are forwarded only when the session
\* which sent them is a party of the current call.
C37_MetaOnlyFromParty ==
  (IsNote(evt) /\ evt.event \in MetaEvents /\ Queued(out) # {})
  => evt.sess \in PartySessions(currentCall)


\* C38: a call has one or two parties, exactly one of them the originator;
\* two parties are distinct sessions of distinct users; and the originator of
\* a call stays the same party as long as the call is there.
C38_Parties ==
  /\ [](currentCall.live =>
          /\ Cardinality(currentCall.parties) \in {1, 2}
          /\ Cardinality(Originators(currentCall)) = 1
          /\ \A p, q \in currentCall.parties :
               p # q => (p.sess # q.sess /\ p.uid # q.uid))
  /\ [][(currentCall.live /\ currentCall'.live) =>
          /\ currentCall'.seq = currentCall.seq
          /\ Originators(currentCall') = Originators(currentCall)]_vars

C38_Witness ==
  /\ currentCall.live
  /\ Cardinality(currentCall.parties) = 2
  /\ IsNote(evt) /\ evt.event = constCallEventAccept
  /\ evt.sess \in PartySessions(currentCall)


\* C39: every {info} message about a call (the offline invite, the forwards
\* of ringing, accept, offer, answer and ice-candidate, the offline accept, the
\* hang-up broadcast and the offline hang-up) carries the id of the message
\* which started the call.
C39_InfoCarriesCallSeq ==
  \A i \in DOMAIN out : out[i].what = "call" => out[i].seq = anchor


(***************************************************************************)
(* Progress of a call.                                                     *)
(***************************************************************************)
\* The call is being established: the originator is its only party.
Inviting == currentCall.live /\ Cardinality(currentCall.parties) = 1
\* The call has both parties.
Established == currentCall.live /\ Cardinality(currentCall.parties) = 2

\* C40: a call which is being established is established or cleared in the
\* end, given that the establishment timer fires unless it is stopped: the
\* timer runs as long as the call is being established, also after an accept
\* whose replacement message could not be saved.
C40_InvitingEnds ==
  /\ [](Inviting => timerArmed)
  /\ (Inviting ~> (Established \/ ~currentCall.live))

\* An accept failed to save its message: the call is still being established
\* and the timer runs.
C40_Witness ==
  /\ Inviting
  /\ timerArmed
  /\ IsNote(evt) /\ evt.event = constCallEventAccept /\ evt.SeqId = currentCall.seq
  /\ saveErr

====
